---- MODULE Spec2Model ----
(***************************************************************************)
(* The job lifecycle engine of the realitydefender client: the result      *)
(* formatter, the attempt-budgeted polling of one job                      *)
(* (get_detection_result) and of a result page (get_detection_results),    *)
(* and the time-budgeted event-driven poller (poll_for_results) with the   *)
(* listeners it emits to; the transport's status mapping and the two       *)
(* upload operations (upload_file, upload_social_media_link); the          *)
(* synchronous variants (_run_async) and cleanup.                          *)
(*                                                                         *)
(* A Python Optional[X] is a set: {} is None (or a missing key), {x} is    *)
(* the value x.  One coroutine runs at a time; a step of the model is the  *)
(* code between two suspension points (a fetch, a sleep).                  *)
(***************************************************************************)
EXTENDS Integers, Sequences, FiniteSets, TLC

VARIABLES
    op,               \* the public operation in progress
    request_id,       \* argument of get_detection_result / poll_for_results
    max_attempts,     \* argument of get_detection_result(s)
    attempts,         \* local of get_detection_result(s)
    spc,              \* position in get_detection_result(s)
    sret,             \* how get_detection_result(s) ended
    polling_interval, \* poll_for_results: local after `or DEFAULT`
    timeout,          \* poll_for_results: local after `or DEFAULT`
    elapsed,          \* poll_for_results local
    is_completed,     \* poll_for_results local
    ppc,              \* position in poll_for_results
    pret,             \* how poll_for_results ended
    args,             \* the arguments poll_for_results was called with
    events,           \* EventEmitter._events: event name -> handlers
    emitted,          \* every emit made so far, in order
    fetches,          \* network GETs issued so far
    sleeps,           \* sleeps started so far
    rounds,           \* get_result calls poll_for_results has seen end
    waits,            \* those that made it wait: ANALYZING or not_found
    log,              \* what each fetch of a caller's own polling call gave
    session,          \* HttpClient.session: "none", "open" or "closed"
    file_path,        \* argument of upload_file
    social_media_link, \* argument of upload_social_media_link
    signed_url_response, \* upload_file local: the body the POST returned
    upc,              \* position in upload_file / upload_social_media_link
    uret,             \* how the upload operation ended
    calls,            \* the POSTs and PUTs issued so far, in order
    answers,          \* what the transport answered to each of them
    bridge,           \* the _run_async call in progress, if any
    cret,             \* how the synchronous variant ended for its caller
    cleanups,         \* cleanup calls made so far
    closes,           \* times the session was closed
    sessions,         \* ClientSession objects made so far
    tasks,            \* two poll_for_results calls in progress at once
    sched,            \* the order they were submitted and started in
    emitter,          \* an EventEmitter used on its own: _events and the
                      \* emit calls in progress
    app               \* the desktop app: is_analyzing, its analysis
                      \* threads, and a safe_upload call

vars == <<op, request_id, max_attempts, attempts, spc, sret, polling_interval,
          timeout, elapsed, is_completed, ppc, pret, args, events, emitted,
          fetches, sleeps, rounds, waits, log, session, file_path,
          social_media_link, signed_url_response, upc, uret, calls, answers,
          bridge, cret, cleanups, closes, sessions, tasks, sched, emitter,
          app>>

----------------------------------------------------------------------------
(* Program constants (core/constants.py) and the bounds of the model.      *)

DEFAULT_POLLING_INTERVAL == 2000
DEFAULT_TIMEOUT == 60000
DEFAULT_MAX_ATTEMPTS == 30

\* The largest max_attempts a caller passes.
MaxAttempts == 3
\* How many steps below zero `elapsed` is followed exactly.
MaxDrift == 2
\* How many times cleanup is called.
MaxCleanups == 2
\* How many handlers are registered on an emitter, and how many times the
\* user calls emit on it.
MaxHandlers == 2
MaxEmits == 2
\* How many times the user asks the app for an analysis.
MaxRequests == 3

\* fetches and sleeps count exactly up to MaxCount and stay there: no call
\* with max_attempts <= MaxAttempts reaches it, only the nested default
\* budget of 30 and a poller that never ends do.
MaxCount == MaxAttempts + 2

Inc(n) == IF n < MaxCount THEN n + 1 ELSE MaxCount

\* Python integers do not overflow.  With a negative interval `elapsed`
\* falls for ever; it is followed exactly down to ElapsedFloor and held
\* there, every value below zero failing `elapsed >= max_wait_time` alike.
ElapsedFloor == 0 - MaxDrift * 1000

Advance(e, interval) ==
    IF e + interval < ElapsedFloor THEN ElapsedFloor ELSE e + interval

\* rounds and waits are counted while `elapsed` is followed exactly.
Count(n, e, interval) == IF e + interval < ElapsedFloor THEN n ELSE n + 1

ErrorCode == {"unauthorized", "invalid_request", "server_error", "timeout",
              "invalid_file", "file_too_large", "upload_failed", "not_found",
              "unknown_error"}

----------------------------------------------------------------------------
(* Raw payloads and the result formatter.                                  *)

\* A raw number-or-not JSON value: kind "absent" (missing or null), "num"
\* (int or float, value num) or "str" (a string such as "n/a").
Absent == [kind |-> "absent", num |-> 0]
Num(n) == [kind |-> "num", num |-> n]
Str == [kind |-> "str", num |-> 0]

RawModel(name, status, pn) == [name |-> name, status |-> status, predictionNumber |-> pn]

\* A raw media payload, a JSON object.  summaryKind: "absent" (no
\* resultsSummary, or null), "dict", or "scalar" (a JSON value that is no
\* object, on which .get fails).
RawMedia(rid, kind, status, score, models) ==
    [requestId |-> rid, summaryKind |-> kind, status |-> status,
     finalScore |-> score, models |-> models]

NoResult == [request_id |-> "", status |-> "", score |-> {}, models |-> <<>>]

\* A variant that rewrites nothing.
rewrite_nothing(status) == status

Rewrite(status) == IF status = "FAKE" THEN "MANIPULATED" ELSE status

The(opt) == CHOOSE x \in opt : TRUE

OrElse(opt, default) == IF opt = {} THEN default ELSE The(opt)

\* A variant that drops no entry.
RECURSIVE format_models_keeping_all(_)
format_models_keeping_all(ms) ==
    IF ms = <<>> THEN <<>>
    ELSE LET m == Head(ms)
             rest == format_models_keeping_all(Tail(ms))
         IN <<[name |-> OrElse(m.name, "Unknown"),
               status |-> Rewrite(OrElse(m.status, "UNKNOWN")),
               score |-> IF m.predictionNumber.kind = "num"
                         THEN {m.predictionNumber.num} ELSE {}]>> \o rest

RECURSIVE format_models(_)
format_models(ms) ==
    IF ms = <<>> THEN <<>>
    ELSE LET m == Head(ms)
             rest == format_models(Tail(ms))
         IN IF m.status = {"NOT_APPLICABLE"} THEN rest
            ELSE <<[name |-> OrElse(m.name, "Unknown"),
                    status |-> Rewrite(OrElse(m.status, "UNKNOWN")),
                    score |-> IF m.predictionNumber.kind = "num"
                              THEN {m.predictionNumber.num} ELSE {}]>> \o rest

\* A variant that formats the models of a payload without resultsSummary.
format_result_keeping_models(response) ==
    LET rid == OrElse(response.requestId, "UNKNOWN") IN
    CASE response.summaryKind = "absent" ->
           [ok |-> TRUE,
            result |-> [request_id |-> rid, status |-> "UNKNOWN", score |-> {},
                        models |-> format_models(response.models)]]
      [] response.summaryKind = "scalar" ->
           [ok |-> FALSE, result |-> NoResult]
      [] OTHER ->
           [ok |-> TRUE,
            result |-> [request_id |-> rid,
                        status |-> Rewrite(OrElse(response.status, "UNKNOWN")),
                        score |-> IF response.finalScore.kind = "num"
                                  THEN {<<response.finalScore.num, 100>>} ELSE {},
                        models |-> format_models(response.models)]]

\* A variant that gives the raw finalScore as the score.
format_result_without_scaling(response) ==
    LET rid == OrElse(response.requestId, "UNKNOWN") IN
    CASE response.summaryKind = "absent" ->
           [ok |-> TRUE,
            result |-> [request_id |-> rid, status |-> "UNKNOWN", score |-> {},
                        models |-> <<>>]]
      [] response.summaryKind = "scalar" ->
           [ok |-> FALSE, result |-> NoResult]
      [] OTHER ->
           [ok |-> TRUE,
            result |-> [request_id |-> rid,
                        status |-> Rewrite(OrElse(response.status, "UNKNOWN")),
                        score |-> IF response.finalScore.kind = "num"
                                  THEN {<<response.finalScore.num, 1>>} ELSE {},
                        models |-> format_models(response.models)]]

\* format_result: [ok |-> TRUE, result |-> r], or ok = FALSE when it raises
\* (a non-domain exception: AttributeError on a resultsSummary that is no
\* object).  A score is the pair <<raw, 100>>, the quotient raw / 100.0.
format_result(response) ==
    LET rid == OrElse(response.requestId, "UNKNOWN") IN
    CASE response.summaryKind = "absent" ->
           [ok |-> TRUE,
            result |-> [request_id |-> rid, status |-> "UNKNOWN", score |-> {},
                        models |-> <<>>]]
      [] response.summaryKind = "scalar" ->
           [ok |-> FALSE, result |-> NoResult]
      [] OTHER ->
           [ok |-> TRUE,
            result |-> [request_id |-> rid,
                        status |-> Rewrite(OrElse(response.status, "UNKNOWN")),
                        score |-> IF response.finalScore.kind = "num"
                                  THEN {<<response.finalScore.num, 100>>} ELSE {},
                        models |-> format_models(response.models)]]

\* A raw page of results; the counters and the media list may be missing.
RawList(items, pages, page, count, media) ==
    [totalItems |-> items, totalPages |-> pages, currentPage |-> page,
     currentPageItemsCount |-> count, mediaList |-> media]

RECURSIVE format_items(_)
format_items(ms) ==
    IF ms = <<>> THEN <<>> ELSE <<format_result(Head(ms))>> \o format_items(Tail(ms))

\* A variant that takes 0 for a missing counter.
format_result_list_defaulting(response) ==
    IF response.mediaList = {}
    THEN [kind |-> "raise", result |-> {}, code |-> "server_error"]
    ELSE LET fs == format_items(The(response.mediaList)) IN
         IF \E i \in 1 .. Len(fs) : ~fs[i].ok
         THEN [kind |-> "exception", result |-> {}, code |-> ""]
         ELSE [kind |-> "return",
               result |-> {[total_items |-> OrElse(response.totalItems, 0),
                            total_pages |-> OrElse(response.totalPages, 0),
                            current_page |-> OrElse(response.currentPage, 0),
                            current_page_items_count |->
                                OrElse(response.currentPageItemsCount, 0),
                            items |-> [i \in 1 .. Len(fs) |-> fs[i].result]]},
               code |-> ""]

\* format_result_list: kind "return" with the list, "raise" (server_error:
\* a counter or the media list is missing) or "exception" (format_result
\* failed on an entry).
format_result_list(response) ==
    IF \/ response.totalItems = {}
       \/ response.totalPages = {}
       \/ response.currentPage = {}
       \/ response.currentPageItemsCount = {}
       \/ response.mediaList = {}
    THEN [kind |-> "raise", result |-> {}, code |-> "server_error"]
    ELSE LET fs == format_items(The(response.mediaList)) IN
         IF \E i \in 1 .. Len(fs) : ~fs[i].ok
         THEN [kind |-> "exception", result |-> {}, code |-> ""]
         ELSE [kind |-> "return",
               result |-> {[total_items |-> The(response.totalItems),
                            total_pages |-> The(response.totalPages),
                            current_page |-> The(response.currentPage),
                            current_page_items_count |->
                                The(response.currentPageItemsCount),
                            items |-> [i \in 1 .. Len(fs) |-> fs[i].result]]},
               code |-> ""]

----------------------------------------------------------------------------
(* The transport, as the polling code sees it.                             *)

\* What one GET gives: t = "json" (client.get returned the parsed object
\* body), "error" (client.get raised RealityDefenderError(code), by
\* _handle_response or for an aiohttp.ClientError) or "exception" (any other
\* exception left client.get).
Json(body) == [t |-> "json", body |-> {body}, code |-> ""]
Failure(code) == [t |-> "error", body |-> {}, code |-> code]
Crash == [t |-> "exception", body |-> {}, code |-> ""]

\* The kinds client.get raises (http_client.py, _handle_response and get).
TransportCodes == {"unauthorized", "invalid_request", "not_found", "server_error"}

\* get_media_result and get_media_results: a RealityDefenderError passes, any
\* other exception becomes unknown_error.
get_media_result(r) ==
    IF r.t = "exception" THEN Failure("unknown_error") ELSE r

get_media_results(r) ==
    IF r.t = "exception" THEN Failure("unknown_error") ELSE r

\* How a coroutine ended: it returned `result`, raised
\* RealityDefenderError(code), or let another exception escape.
Running == [kind |-> "none", result |-> {}, code |-> ""]
Return(x) == [kind |-> "return", result |-> {x}, code |-> ""]
Raise(code) == [kind |-> "raise", result |-> {}, code |-> code]
Escape == [kind |-> "exception", result |-> {}, code |-> ""]

\* One step of a polling loop: sleep and go on with `attempts`, or end.
GoOn(n) == [next |-> "sleep", attempts |-> n, ret |-> Running]
End(n, ret) == [next |-> "done", attempts |-> n, ret |-> ret]

----------------------------------------------------------------------------
(* HttpClient: the status mapping of _handle_response, and post.           *)

\* An HTTP response: its status and its body, which either parsed as a JSON
\* object (its members in `body`) or failed to parse as JSON.
HttpResponse(status, parsed, body) ==
    [status |-> status, parsed |-> parsed, body |-> body]

\* The JSON object of a POST answer: the error `code`, the ids, and the
\* `response` member, which is missing ("absent"), an object ("dict", with
\* or without signedUrl) or any other JSON value ("scalar": a string, null).
RawBody(code, rid, mid, kind, url) ==
    [code |-> code, requestId |-> rid, mediaId |-> mid, responseKind |-> kind,
     signedUrl |-> url]

NoBody == RawBody({}, {}, {}, "absent", {})

\* Python's `x or ""` on an optional string.
OrEmpty(opt) == IF opt = {} THEN "" ELSE The(opt)

\* Variants of the mapping, each with one decision changed.
handle_response_ignoring_body_code(h) ==
    IF h.status = 400 THEN Failure("invalid_request")
    ELSE IF h.status = 401 THEN Failure("unauthorized")
    ELSE IF h.status = 404 THEN Failure("not_found")
    ELSE IF h.status > 400 THEN Failure("server_error")
    ELSE IF ~h.parsed THEN Failure("server_error")
    ELSE Json(h.body)

\* _handle_response: the domain error it raises, or the parsed body.
handle_response(h) ==
    LET code == IF h.parsed THEN OrEmpty(h.body.code) ELSE "" IN
    IF h.status = 400
    THEN IF code \in {"free-tier-not-allowed", "upload-limit-reached"}
         THEN Failure("unauthorized")
         ELSE Failure("invalid_request")
    ELSE IF h.status = 401 THEN Failure("unauthorized")
    ELSE IF h.status = 404 THEN Failure("not_found")
    ELSE IF h.status > 400 THEN Failure("server_error")
    ELSE IF ~h.parsed THEN Failure("server_error")
    ELSE Json(h.body)

\* What the network gives to one request: an HTTP response, an
\* aiohttp.ClientError (no status is available), or any other exception.
Http(h) == [t |-> "http", http |-> {h}]
ClientError == [t |-> "client_error", http |-> {}]
OtherError == [t |-> "exception", http |-> {}]

\* HttpClient.post: _handle_response on the response; a ClientError becomes
\* server_error, any other exception leaves post.
post(a) ==
    CASE a.t = "http" -> handle_response(The(a.http))
      [] a.t = "client_error" -> Failure("server_error")
      [] OTHER -> Crash

\* ensure_session: the session there is, or a new one.
ensure_session(s) == "open"

\* A variant that makes a new ClientSession at every call.
new_session_every_time(s) == 1

\* ensure_session makes a new ClientSession (1) when there is none or a
\* closed one, and none (0) when an open one is there.
new_session(s) == IF s = "open" THEN 0 ELSE 1

----------------------------------------------------------------------------
(* upload_file and upload_social_media_link.                               *)

\* get_signed_url: a RealityDefenderError passes, any other exception
\* becomes unknown_error.
get_signed_url(a) ==
    IF post(a).t = "exception" THEN Failure("unknown_error") ELSE post(a)

UploadResult(rid, mid) == [request_id |-> rid, media_id |-> mid]

\* One step of an upload operation: the PUT is issued next, or it ends.
Put == [next |-> "put", ret |-> Running]
Ended(ret) == [next |-> "done", ret |-> ret]

\* What get_file_info gives for the file: "ok" (name, content and type), or
\* the kind of the error it raises.
FileInfos == {"ok", "invalid_file", "file_too_large"}

\* A variant that goes on to the PUT when the POST failed.
posted_ignoring_post_failure(a, info) ==
    LET r == get_signed_url(a) IN
    IF r.t = "error" THEN Put
    ELSE LET b == The(r.body) IN
         IF b.responseKind = "scalar" THEN Ended(Raise("upload_failed"))
         ELSE LET rid == OrElse(b.requestId, "")
                  mid == OrElse(b.mediaId, "")
                  url == IF b.responseKind = "absent" THEN ""
                         ELSE OrElse(b.signedUrl, "")
              IN IF rid = "" \/ mid = "" \/ url = ""
                 THEN Ended(Raise("server_error"))
                 ELSE IF info # "ok" THEN Ended(Raise(info))
                 ELSE Put

\* A variant that turns the failure on `response` into unknown_error.
posted_wrapping_as_unknown_error(a, info) ==
    LET r == get_signed_url(a) IN
    IF r.t = "error" THEN Ended(Raise(r.code))
    ELSE LET b == The(r.body) IN
         IF b.responseKind = "scalar" THEN Ended(Raise("unknown_error"))
         ELSE LET rid == OrElse(b.requestId, "")
                  mid == OrElse(b.mediaId, "")
                  url == IF b.responseKind = "absent" THEN ""
                         ELSE OrElse(b.signedUrl, "")
              IN IF rid = "" \/ mid = "" \/ url = ""
                 THEN Ended(Raise("server_error"))
                 ELSE IF info # "ok" THEN Ended(Raise(info))
                 ELSE Put

\* upload_file from the answer of the signed-URL POST to the PUT or to the
\* end: the ids and the signed URL are read (`response` being no object
\* fails there, which the outer handler turns into upload_failed), checked,
\* and upload_to_signed_url reads the file before it issues the PUT.
upload_file_posted(a, info) ==
    LET r == get_signed_url(a) IN
    IF r.t = "error" THEN Ended(Raise(r.code))
    ELSE LET b == The(r.body) IN
         IF b.responseKind = "scalar" THEN Ended(Raise("upload_failed"))
         ELSE LET rid == OrElse(b.requestId, "")
                  mid == OrElse(b.mediaId, "")
                  url == IF b.responseKind = "absent" THEN ""
                         ELSE OrElse(b.signedUrl, "")
              IN IF rid = "" \/ mid = "" \/ url = ""
                 THEN Ended(Raise("server_error"))
                 ELSE IF info # "ok" THEN Ended(Raise(info))
                 ELSE Put

\* A variant that lets status 400 pass.
put_answered_above_400(a, b) ==
    IF a.t = "http" /\ ~(The(a.http).status > 400)
    THEN Ended(Return(UploadResult(OrElse(b.requestId, ""), {OrElse(b.mediaId, "")})))
    ELSE Ended(Raise("upload_failed"))

\* upload_to_signed_url from the answer of the PUT, and the return of
\* upload_file: a status >= 400 and any exception give upload_failed.
upload_to_signed_url_answered(a, b) ==
    IF a.t = "http" /\ ~(The(a.http).status >= 400)
    THEN Ended(Return(UploadResult(OrElse(b.requestId, ""), {OrElse(b.mediaId, "")})))
    ELSE Ended(Raise("upload_failed"))

\* A link as urlparse sees it: the text is "empty", "blank" (white space
\* only) or "text"; urlparse raises ValueError (parses = FALSE) or gives a
\* scheme and a netloc; domain is whether validators.domain accepts the
\* netloc.
Link(text, parses, scheme, netloc, domain) ==
    [text |-> text, parses |-> parses, scheme |-> scheme, netloc |-> netloc,
     domain |-> domain]

\* A variant without the domain test.
link_valid_without_domain_test(l) ==
    /\ l.text = "text"
    /\ l.parses
    /\ l.scheme \in {"http", "https"}
    /\ l.netloc # ""

\* The validation upload_social_media_link starts with: TRUE when the link
\* passes, FALSE when invalid_request is raised.
upload_social_media_link_valid(l) ==
    /\ l.text = "text"
    /\ l.parses
    /\ l.scheme \in {"http", "https"}
    /\ l.netloc # ""
    /\ l.domain

\* upload_social_media_link from the answer of its POST to the end.
upload_social_media_link_posted(a) ==
    LET r == post(a) IN
    CASE r.t = "error" -> Ended(Raise(r.code))
      [] r.t = "exception" -> Ended(Raise("upload_failed"))
      [] OTHER ->
           LET rid == OrElse(The(r.body).requestId, "") IN
           IF rid = "" THEN Ended(Raise("server_error"))
           ELSE Ended(Return(UploadResult(rid, {})))

----------------------------------------------------------------------------
(* get_detection_result: one pass of the while loop, from the answer of    *)
(* the fetch to the sleep or to the end of the call.                       *)

\* Variants of the loop pass, each with one decision changed.
attempt_without_early_return(r, n, max) ==
    LET media == get_media_result(r) IN
    IF media.t = "error"
    THEN IF media.code = "not_found" /\ n < max - 1
         THEN GoOn(n + 1)
         ELSE End(n, Raise(media.code))
    ELSE LET f == format_result(The(media.body)) IN
         IF ~f.ok THEN End(n, Raise("server_error"))
         ELSE IF n >= max - 1 THEN End(n, Return(f.result))
         ELSE GoOn(n + 1)

attempt_with_late_budget_test(r, n, max) ==
    LET media == get_media_result(r) IN
    IF media.t = "error"
    THEN IF media.code = "not_found" /\ n < max - 1
         THEN GoOn(n + 1)
         ELSE End(n, Raise(media.code))
    ELSE LET f == format_result(The(media.body)) IN
         IF ~f.ok THEN End(n, Raise("server_error"))
         ELSE IF f.result.status \notin {"ANALYZING", "UNKNOWN"}
              THEN End(n, Return(f.result))
         ELSE IF n >= max THEN End(n, Return(f.result))
         ELSE GoOn(n + 1)

attempt_retrying_not_found_once_more(r, n, max) ==
    LET media == get_media_result(r) IN
    IF media.t = "error"
    THEN IF media.code = "not_found" /\ n < max
         THEN GoOn(n + 1)
         ELSE End(n, Raise(media.code))
    ELSE LET f == format_result(The(media.body)) IN
         IF ~f.ok THEN End(n, Raise("server_error"))
         ELSE IF f.result.status \notin {"ANALYZING", "UNKNOWN"}
              THEN End(n, Return(f.result))
         ELSE IF n >= max - 1 THEN End(n, Return(f.result))
         ELSE GoOn(n + 1)

attempt_retrying_every_error(r, n, max) ==
    LET media == get_media_result(r) IN
    IF media.t = "error"
    THEN IF n < max - 1
         THEN GoOn(n + 1)
         ELSE End(n, Raise(media.code))
    ELSE LET f == format_result(The(media.body)) IN
         IF ~f.ok THEN End(n, Raise("server_error"))
         ELSE IF f.result.status \notin {"ANALYZING", "UNKNOWN"}
              THEN End(n, Return(f.result))
         ELSE IF n >= max - 1 THEN End(n, Return(f.result))
         ELSE GoOn(n + 1)

attempt_wrapping_as_unknown_error(r, n, max) ==
    LET media == get_media_result(r) IN
    IF media.t = "error"
    THEN IF media.code = "not_found" /\ n < max - 1
         THEN GoOn(n + 1)
         ELSE End(n, Raise(media.code))
    ELSE LET f == format_result(The(media.body)) IN
         IF ~f.ok THEN End(n, Raise("unknown_error"))
         ELSE IF f.result.status \notin {"ANALYZING", "UNKNOWN"}
              THEN End(n, Return(f.result))
         ELSE IF n >= max - 1 THEN End(n, Return(f.result))
         ELSE GoOn(n + 1)

get_detection_result_attempt(r, n, max) ==
    LET media == get_media_result(r) IN
    IF media.t = "error"
    THEN IF media.code = "not_found" /\ n < max - 1
         THEN GoOn(n + 1)
         ELSE End(n, Raise(media.code))
    ELSE LET f == format_result(The(media.body)) IN
         IF ~f.ok THEN End(n, Raise("server_error"))
         ELSE IF f.result.status \notin {"ANALYZING", "UNKNOWN"}
              THEN End(n, Return(f.result))
         ELSE IF n >= max - 1 THEN End(n, Return(f.result))
         ELSE GoOn(n + 1)

\* The fetch after the loop, which runs when the loop body never did or
\* the loop ran out: no handler surrounds it.
get_detection_result_tail(r, n) ==
    LET media == get_media_result(r) IN
    IF media.t = "error" THEN End(n, Raise(media.code))
    ELSE LET f == format_result(The(media.body)) IN
         IF f.ok THEN End(n, Return(f.result)) ELSE End(n, Escape)

get_detection_result_step(r, n, max) ==
    IF n < max THEN get_detection_result_attempt(r, n, max)
    ELSE get_detection_result_tail(r, n)

----------------------------------------------------------------------------
(* get_detection_results: one pass of the while loop.                      *)

\* A variant that retries unauthorized like any other kind.
caught_retrying_unauthorized(code, n, max) ==
    IF n < max - 1 THEN GoOn(n + 1) ELSE End(n, Raise(code))

\* A RealityDefenderError caught in the loop: unauthorized is re-raised,
\* any other kind is retried while attempts are left and re-raised after.
get_detection_results_caught(code, n, max) ==
    IF code = "unauthorized" THEN End(n, Raise(code))
    ELSE IF n < max - 1 THEN GoOn(n + 1)
    ELSE End(n, Raise(code))

\* A variant that goes on polling after a list that formatted.
attempt_retrying_good_list(r, n, max) ==
    LET media == get_media_results(r) IN
    IF media.t = "error" THEN get_detection_results_caught(media.code, n, max)
    ELSE LET f == format_result_list(The(media.body)) IN
         CASE f.kind = "return" -> IF n < max - 1 THEN GoOn(n + 1) ELSE End(n, f)
           [] f.kind = "raise" -> get_detection_results_caught(f.code, n, max)
           [] OTHER -> End(n, Raise("server_error"))

get_detection_results_attempt(r, n, max) ==
    LET media == get_media_results(r) IN
    IF media.t = "error" THEN get_detection_results_caught(media.code, n, max)
    ELSE LET f == format_result_list(The(media.body)) IN
         CASE f.kind = "return" -> End(n, f)
           [] f.kind = "raise" -> get_detection_results_caught(f.code, n, max)
           [] OTHER -> End(n, Raise("server_error"))

----------------------------------------------------------------------------
(* EventEmitter.emit and poll_for_results.                                 *)

\* A handler is "ok" or "raises" (an exception that is no
\* RealityDefenderError).  emit calls the handlers of the event in order;
\* the first that raises ends the emit with its exception.
Event(name, result, code) == [event |-> name, result |-> result, code |-> code]

emit(em, ev, e) ==
    [emitted |-> Append(em, e),
     raised |-> \E i \in 1 .. Len(ev[e.event]) : ev[e.event][i] = "raises"]

\* Python's `x or default`: None and 0 give the default.
OrDefault(opt, default) == IF opt = {} \/ opt = {0} THEN default ELSE The(opt)

Returned == [kind |-> "return", result |-> {}, code |-> ""]

\* poll_for_results goes to sleep after a round that made it wait.
Wait(e, em, interval, w, rd) ==
    [ppc |-> "sleep", elapsed |-> Advance(e, interval), is_completed |-> FALSE,
     emitted |-> em, pret |-> Running,
     waits |-> Count(w, e, interval), rounds |-> Count(rd, e, interval)]

\* poll_for_results ends after the emit x; an exception of a handler leaves
\* the coroutine.
Stop(e, x, done, w, rd) ==
    [ppc |-> "done", elapsed |-> e, is_completed |-> done,
     emitted |-> x.emitted, pret |-> IF x.raised THEN Escape ELSE Returned,
     waits |-> w, rounds |-> rd]

\* Variants of the loop body, each with one decision changed.
handle_without_advance(ret, e, em, ev, interval, w, rd) ==
    CASE ret.kind = "return" /\ The(ret.result).status = "ANALYZING" ->
           Wait(e, em, interval, w, rd)
      [] ret.kind = "return" /\ The(ret.result).status # "ANALYZING" ->
           LET x == emit(em, ev, Event("result", ret.result, "")) IN
           IF ~x.raised THEN Stop(e, x, TRUE, w, rd + 1)
           ELSE Stop(e, emit(x.emitted, ev, Event("error", {}, "unknown_error")),
                     TRUE, w, rd + 1)
      [] ret.kind = "raise" /\ ret.code = "not_found" ->
           Wait(e, em, 0, w, rd)
      [] ret.kind = "raise" /\ ret.code # "not_found" ->
           Stop(e, emit(em, ev, Event("error", {}, ret.code)), TRUE, w, rd + 1)
      [] OTHER ->
           Stop(e, emit(em, ev, Event("error", {}, "unknown_error")), TRUE, w, rd + 1)

handle_waiting_on_unknown(ret, e, em, ev, interval, w, rd) ==
    CASE ret.kind = "return" /\ The(ret.result).status \in {"ANALYZING", "UNKNOWN"} ->
           Wait(e, em, interval, w, rd)
      [] ret.kind = "return" /\ The(ret.result).status \notin {"ANALYZING", "UNKNOWN"} ->
           LET x == emit(em, ev, Event("result", ret.result, "")) IN
           IF ~x.raised THEN Stop(e, x, TRUE, w, rd + 1)
           ELSE Stop(e, emit(x.emitted, ev, Event("error", {}, "unknown_error")),
                     TRUE, w, rd + 1)
      [] ret.kind = "raise" /\ ret.code = "not_found" ->
           Wait(e, em, interval, w, rd)
      [] ret.kind = "raise" /\ ret.code # "not_found" ->
           Stop(e, emit(em, ev, Event("error", {}, ret.code)), TRUE, w, rd + 1)
      [] OTHER ->
           Stop(e, emit(em, ev, Event("error", {}, "unknown_error")), TRUE, w, rd + 1)

handle_emitting_not_found(ret, e, em, ev, interval, w, rd) ==
    CASE ret.kind = "return" /\ The(ret.result).status = "ANALYZING" ->
           Wait(e, em, interval, w, rd)
      [] ret.kind = "return" /\ The(ret.result).status # "ANALYZING" ->
           LET x == emit(em, ev, Event("result", ret.result, "")) IN
           IF ~x.raised THEN Stop(e, x, TRUE, w, rd + 1)
           ELSE Stop(e, emit(x.emitted, ev, Event("error", {}, "unknown_error")),
                     TRUE, w, rd + 1)
      [] ret.kind = "raise" ->
           Stop(e, emit(em, ev, Event("error", {}, ret.code)), TRUE, w, rd + 1)
      [] OTHER ->
           Stop(e, emit(em, ev, Event("error", {}, "unknown_error")), TRUE, w, rd + 1)

\* The loop body after get_result ended with ret: wait, or emit and stop.
poll_for_results_handle(ret, e, em, ev, interval, w, rd) ==
    CASE ret.kind = "return" /\ The(ret.result).status = "ANALYZING" ->
           Wait(e, em, interval, w, rd)
      [] ret.kind = "return" /\ The(ret.result).status # "ANALYZING" ->
           LET x == emit(em, ev, Event("result", ret.result, "")) IN
           IF ~x.raised THEN Stop(e, x, TRUE, w, rd + 1)
           ELSE Stop(e, emit(x.emitted, ev, Event("error", {}, "unknown_error")),
                     TRUE, w, rd + 1)
      [] ret.kind = "raise" /\ ret.code = "not_found" ->
           Wait(e, em, interval, w, rd)
      [] ret.kind = "raise" /\ ret.code # "not_found" ->
           Stop(e, emit(em, ev, Event("error", {}, ret.code)), TRUE, w, rd + 1)
      [] OTHER ->
           Stop(e, emit(em, ev, Event("error", {}, "unknown_error")), TRUE, w, rd + 1)

\* A variant in which get_result does not test the request id.
loop_without_request_id_test(rid, e, em, ev, interval, max_wait_time, w, rd) ==
    IF e < max_wait_time
    THEN [ppc |-> "get_result", elapsed |-> e, is_completed |-> FALSE,
          emitted |-> em, pret |-> Running, waits |-> w, rounds |-> rd]
    ELSE Stop(e, emit(em, ev, Event("error", {}, "timeout")), FALSE, w, rd)

\* The while test with is_completed false, to the next suspension: the GET
\* of a new get_result call (an empty request id makes it raise not_found
\* before any GET), or the timeout error after the loop.
poll_for_results_loop(rid, e, em, ev, interval, max_wait_time, w, rd) ==
    IF e < max_wait_time
    THEN IF rid = ""
         THEN poll_for_results_handle(Raise("not_found"), e, em, ev, interval, w, rd)
         ELSE [ppc |-> "get_result", elapsed |-> e, is_completed |-> FALSE,
               emitted |-> em, pret |-> Running, waits |-> w, rounds |-> rd]
    ELSE Stop(e, emit(em, ev, Event("error", {}, "timeout")), FALSE, w, rd)

----------------------------------------------------------------------------
(* _run_async, the synchronous variants, and cleanup.                      *)

\* The thread that calls a synchronous variant: what asyncio.get_event_loop
\* finds for it ("none": it raises RuntimeError; a "closed", an "idle" or a
\* "running" loop), and for a running loop whether it is this very thread
\* that runs it (the call comes from a coroutine or a callback of the loop).
Caller(loop, own) == [loop |-> loop, own |-> own]

\* The coroutine a synchronous variant hands to _run_async.
Coroutine(name, a) == <<name, a>>

NoBridge ==
    [mode |-> "none", own |-> FALSE, state |-> "none", coro |-> Coroutine("", <<>>)]

\* _run_async to the point where the coroutine is handed to the loop: a
\* missing or closed loop is replaced by a new one; on a running loop the
\* coroutine is scheduled with run_coroutine_threadsafe and the calling
\* thread blocks in future.result(), otherwise the calling thread runs the
\* loop itself in run_until_complete.
run_async_enter(c, coro) ==
    [mode |-> IF c.loop = "running" THEN "run_coroutine_threadsafe"
              ELSE "run_until_complete",
     own |-> c.loop = "running" /\ c.own,
     state |-> "called",
     coro |-> coro]

\* The loop the coroutine was handed to can run it: its thread is not the
\* one blocked in future.result().
LoopRuns(b) == ~(b.mode = "run_coroutine_threadsafe" /\ b.own)

\* A variant that turns every error into unknown_error.
run_async_wrapping_all(ret) ==
    IF ret.kind = "return" THEN ret ELSE Raise("unknown_error")

\* _run_async from the end of the coroutine: its value is returned, a
\* RealityDefenderError is raised again, any other exception becomes
\* unknown_error.
run_async_leave(ret) ==
    IF ret.kind = "exception" THEN Raise("unknown_error") ELSE ret

\* A variant that closes whatever session there is.
close_without_closed_test(s) ==
    IF s = "none" THEN [session |-> s, closed |-> 0]
    ELSE [session |-> "closed", closed |-> 1]

\* HttpClient.close: session.close() is awaited on an open session; no
\* session, or a closed one, is left as it is.
close(s) ==
    IF s = "open" THEN [session |-> "closed", closed |-> 1]
    ELSE [session |-> s, closed |-> 0]

\* RealityDefender.__init__ on an api_key: unauthorized when it is empty.
RealityDefender_init(api_key) ==
    IF api_key = "" THEN Raise("unauthorized") ELSE Returned

----------------------------------------------------------------------------
(* Two poll_for_results calls on one client at the same time.              *)

\* One call: its arguments, the event loop it runs on, its position (ppc in
\* poll_for_results, spc and attempts in the nested get_result), its own
\* elapsed, is_completed and emitted events, and the session it saw in the
\* test of ensure_session.
Task(interval, time, loop) ==
    [interval |-> interval, timeout |-> time, loop |-> loop,
     ppc |-> "called", spc |-> "none", attempts |-> 0, elapsed |-> 0,
     is_completed |-> FALSE, emitted |-> <<>>, pret |-> Running, waits |-> 0,
     saw |-> "none"]

NoTask == [Task({}, {}, 0) EXCEPT !.ppc = "idle"]

\* The task goes on as the poller step p says; a new nested get_result
\* starts with attempts = 0 and its first GET.
TaskGoes(t, p) ==
    [t EXCEPT !.ppc = p.ppc, !.elapsed = p.elapsed,
              !.is_completed = p.is_completed, !.emitted = p.emitted,
              !.pret = p.pret, !.waits = p.waits,
              !.spc = IF p.ppc = "get_result" THEN "fetch" ELSE "none",
              !.attempts = IF p.ppc = "get_result" THEN 0 ELSE t.attempts]

\* poll_for_results from its start to the first suspension.
task_begin(t, rid, ev) ==
    LET pi == OrDefault(t.interval, DEFAULT_POLLING_INTERVAL)
        max_wait_time == OrDefault(t.timeout, DEFAULT_TIMEOUT)
    IN TaskGoes(t,
         IF max_wait_time <= 0
         THEN Stop(0, emit(<<>>, ev, Event("error", {}, "timeout")), FALSE, 0, 0)
         ELSE poll_for_results_loop(rid, 0, <<>>, ev, pi, max_wait_time, 0, 0))

\* The GET of the task's nested get_result answers r.
task_fetched(t, r, ev) ==
    LET s == get_detection_result_step(r, t.attempts, DEFAULT_MAX_ATTEMPTS) IN
    IF s.next = "sleep"
    THEN [t EXCEPT !.attempts = s.attempts, !.spc = "sleep"]
    ELSE TaskGoes(t, poll_for_results_handle(
                         s.ret, t.elapsed, t.emitted, ev,
                         OrDefault(t.interval, DEFAULT_POLLING_INTERVAL),
                         t.waits, 0))

\* The task's own sleep is over: the while test, and what follows it.
task_sleep_over(t, rid, ev) ==
    TaskGoes(t, poll_for_results_loop(
                    rid, t.elapsed, t.emitted, ev,
                    OrDefault(t.interval, DEFAULT_POLLING_INTERVAL),
                    OrDefault(t.timeout, DEFAULT_TIMEOUT), t.waits, 0))

\* EventEmitter.on: the handler is added after those registered before.
on(ev, event, handler) == [ev EXCEPT ![event] = Append(ev[event], handler)]

----------------------------------------------------------------------------
(* EventEmitter: _events, on, once, remove_listener and emit.              *)

\* What _events holds for an event is a list object: `events` gives its
\* place in `heap` (0 when the event is no key of _events).  `stack` holds
\* the emit calls in progress, the innermost last: the list object each
\* iterates over and the place it has reached.  `log` has the callbacks
\* invoked and `done` the emit calls that have ended.
EventNames == {"result", "error"}

Other(event) == IF event = "result" THEN "error" ELSE "result"

NewEmitter ==
    [events |-> [e \in EventNames |-> 0], heap |-> <<>>, stack |-> <<>>,
     log |-> <<>>, done |-> <<>>, emits |-> 0, calls |-> 0, onces |-> 0,
     did |-> {}]

\* What is in a list: the callback itself for `on`, and for `once` the
\* one_time_handler made by the k-th call of once, which wraps it.
OnEl(cb) == [cb |-> cb, once |-> 0]
OnceEl(cb, k) == [cb |-> cb, once |-> k]

\* The list _events holds for the event now.
Registered(E, event) ==
    IF E.events[event] = 0 THEN <<>> ELSE E.heap[E.events[event]]

\* on: a new list for a new key, and the callback appended to the list
\* object in place.
emitter_on(E, event, el) ==
    IF E.events[event] = 0
    THEN [E EXCEPT !.heap = Append(@, <<el>>), !.events[event] = Len(E.heap) + 1]
    ELSE [E EXCEPT !.heap[E.events[event]] = Append(@, el)]

\* once: on with a new one_time_handler.
emitter_once(E, event, cb) ==
    [emitter_on(E, event, OnceEl(cb, E.onces + 1)) EXCEPT !.onces = @ + 1]

\* A variant that removes from the list object in place.
remove_listener_in_place(E, event, el) ==
    IF E.events[event] = 0 THEN E
    ELSE [E EXCEPT !.heap[E.events[event]] = SelectSeq(@, LAMBDA x : x # el)]

\* remove_listener: _events[event] is bound to a new list without the
\* callbacks equal to el; the old list object is left as it was.
remove_listener(E, event, el) ==
    IF E.events[event] = 0 THEN E
    ELSE [E EXCEPT !.heap = Append(@, SelectSeq(E.heap[E.events[event]],
                                                 LAMBDA x : x # el)),
                   !.events[event] = Len(E.heap) + 1]

\* An emit call that has ended: its number and event, the list at its
\* start, the other event's list at its start and end, what it returned,
\* and whether an exception ended it.
Ended_emit(n, event, snap, before, after, ret, raised) ==
    [n |-> n, event |-> event, snap |-> snap, before |-> before,
     after |-> after, ret |-> ret, raised |-> raised]

\* emit to its for loop: False at once for an event that is no key.
emitter_emit(E, event) ==
    LET n == E.emits + 1 IN
    IF E.events[event] = 0
    THEN [E EXCEPT !.emits = n,
                   !.done = Append(@, Ended_emit(n, event, <<>>,
                                                 Registered(E, Other(event)),
                                                 Registered(E, Other(event)),
                                                 FALSE, FALSE))]
    ELSE [E EXCEPT !.emits = n,
                   !.stack = Append(@, [event |-> event, n |-> n, pos |-> 1,
                                        list |-> E.events[event],
                                        snap |-> Registered(E, event),
                                        before |-> Registered(E, Other(event))])]

\* A variant that returns whether the list had callbacks when emit began.
emit_returning_had_listeners(E) ==
    LET f == E.stack[Len(E.stack)] IN
    [E EXCEPT !.stack = SubSeq(@, 1, Len(E.stack) - 1),
              !.done = Append(@, Ended_emit(f.n, f.event, f.snap, f.before,
                                            Registered(E, Other(f.event)),
                                            Len(f.snap) > 0, FALSE))]

\* The for loop of the innermost emit is over: it returns whether the list
\* _events holds now has callbacks.
emit_returns(E) ==
    LET f == E.stack[Len(E.stack)] IN
    [E EXCEPT !.stack = SubSeq(@, 1, Len(E.stack) - 1),
              !.done = Append(@, Ended_emit(f.n, f.event, f.snap, f.before,
                                            Registered(E, Other(f.event)),
                                            Len(Registered(E, f.event)) > 0,
                                            FALSE))]

\* An exception of a callback leaves every emit in progress, the innermost
\* first.
RECURSIVE emit_raises(_)
emit_raises(E) ==
    IF E.stack = <<>> THEN E
    ELSE LET f == E.stack[Len(E.stack)] IN
         emit_raises(
             [E EXCEPT !.stack = SubSeq(@, 1, Len(E.stack) - 1),
                       !.done = Append(@, Ended_emit(f.n, f.event, f.snap,
                                                     f.before,
                                                     Registered(E, Other(f.event)),
                                                     FALSE, TRUE))])

\* What a user callback does when it is called during an emit of the
\* event: nothing ("plain"); remove_listener on itself ("removes_self") or
\* on the callback "plain" ("removes_plain"); emit of the same event, the
\* first time it is called ("emits"); or raise.
callback(E, event, cb) ==
    CASE cb = "removes_self" -> remove_listener(E, event, OnEl(cb))
      [] cb = "removes_plain" -> remove_listener(E, event, OnEl("plain"))
      [] cb = "emits" /\ cb \notin E.did ->
           emitter_emit([E EXCEPT !.did = @ \cup {cb}], event)
      [] cb = "raises" -> emit_raises(E)
      [] OTHER -> E

\* one_time_handler: remove_listener on itself, then the callback.
one_time_handler(E, event, el) ==
    callback(remove_listener(E, event, el), event, el.cb)

\* One pass of the for loop of the innermost emit: the next callback of
\* the list object it iterates over is called; or the loop is over.
emit_next(E) ==
    LET d == Len(E.stack)
        f == E.stack[d]
        list == E.heap[f.list]
    IN IF f.pos > Len(list) THEN emit_returns(E)
       ELSE LET el == list[f.pos]
                E1 == [E EXCEPT !.stack[d].pos = @ + 1,
                                !.log = Append(@, [el |-> el, n |-> f.n])]
            IN IF el.once > 0 THEN one_time_handler(E1, f.event, el)
               ELSE callback(E1, f.event, el.cb)

----------------------------------------------------------------------------
(* The desktop app (app.py): analyze_file, _run_analysis and safe_upload.  *)

UPLOAD_RETRIES == 4
UPLOAD_BACKOFF == 2

\* An analysis thread: in the try block of _run_analysis ("try"), past
\* `self.is_analyzing = False` of its finally block ("reset"), or ended;
\* and the way its try block ended.
Thread(pos, way) == [pos |-> pos, way |-> way]

NoUpload ==
    [pc |-> "idle", retries |-> 0, backoff |-> 0, attempt |-> 0, tries |-> 0,
     answers |-> <<>>, waited |-> <<>>, ret |-> Running]

NewApp ==
    [is_analyzing |-> FALSE, threads |-> <<>>, requests |-> <<>>,
     up |-> NoUpload]

\* A variant that starts a thread while one is analysing.
analyze_file_without_flag_test(is_analyzing, file) == file = "ok"

\* analyze_file goes as far as starting a thread: no analysis is in
\* progress, a file is selected ("" is none), it exists, and the user has
\* not declined to upload a large one.
analyze_file_starts(is_analyzing, file) ==
    IF is_analyzing THEN FALSE
    ELSE IF file = "" THEN FALSE
    ELSE IF file = "missing" THEN FALSE
    ELSE file # "declined"

\* A variant that leaves is_analyzing set unless the analysis succeeded.
reset_on_success_only(way) == way # "success"

\* is_analyzing after _run_analysis has ended in the given way: the finally
\* block sets it to False whatever the way.
run_analysis_finally(way) == FALSE

\* The dict safe_upload returns when every attempt failed: a value
\* returned, with no upload response in it and the text of its "error"
\* entry.
UploadError == [kind |-> "return", result |-> {}, code |-> "upload_failed"]

\* The while test of safe_upload: the next upload attempt is awaited, or
\* the error dict is returned.
safe_upload_loop(u) ==
    IF u.attempt < u.retries
    THEN [u EXCEPT !.pc = "upload", !.tries = @ + 1]
    ELSE [u EXCEPT !.pc = "done", !.ret = UploadError]

\* A variant that sleeps after the last attempt as well.
failed_sleeping_after_last(u) ==
    IF u.attempt < u.retries
    THEN [u EXCEPT !.pc = "sleep",
                   !.waited = Append(@, u.backoff * (u.attempt + 1))]
    ELSE safe_upload_loop([u EXCEPT !.attempt = @ + 1])

\* The except clause of safe_upload: the sleep of backoff * (attempt + 1)
\* when attempts are left, and attempt += 1 and the loop test otherwise.
safe_upload_failed(u) ==
    IF u.attempt < u.retries - 1
    THEN [u EXCEPT !.pc = "sleep",
                   !.waited = Append(@, u.backoff * (u.attempt + 1))]
    ELSE safe_upload_loop([u EXCEPT !.attempt = @ + 1])

\* rd_client.upload has ended with o: its value is returned, and any
\* exception is caught.
safe_upload_awaited(u, o) ==
    LET v == [u EXCEPT !.answers = Append(@, o)] IN
    IF o.kind = "return" THEN [v EXCEPT !.pc = "done", !.ret = o]
    ELSE safe_upload_failed(v)

----------------------------------------------------------------------------
(* What the service answers and what callers pass.                         *)

Model1 == RawModel({"rd-context-img"}, {"AUTHENTIC"}, Num(3))
Model2 == RawModel({"rd-pine-img"}, {"FAKE"}, Num(91))
Model3 == RawModel({"rd-oak-img"}, {"NOT_APPLICABLE"}, Absent)
Model4 == RawModel({}, {}, Str)

\* A payload of the shape format_result returns: request_id, status, score
\* and models, and so neither requestId nor resultsSummary.
AlreadyFormatted ==
    RawMedia({}, "absent", {}, Absent,
             <<RawModel({"rd-pine-img"}, {"MANIPULATED"}, Absent)>>)

MediaBodies ==
    { RawMedia({"req-1"}, "dict", {"ANALYZING"}, Absent, <<>>),
      RawMedia({"req-1"}, "dict", {"AUTHENTIC"}, Num(12), <<Model1, Model3>>),
      RawMedia({"req-1"}, "dict", {"FAKE"}, Num(87), <<Model3, Model2>>),
      RawMedia({"req-1"}, "dict", {}, Str, <<>>),
      RawMedia({"req-1"}, "absent", {}, Absent, <<Model1>>),
      AlreadyFormatted,
      RawMedia({"req-1"}, "dict", {"SUSPICIOUS"}, Num(0),
               <<Model2, Model3, Model4, Model1, Model3>>),
      RawMedia({"req-1"}, "scalar", {}, Absent, <<>>) }

MediaResponses ==
    {Json(b) : b \in MediaBodies} \cup {Failure(c) : c \in TransportCodes} \cup {Crash}

Item1 == RawMedia({"req-1"}, "dict", {"FAKE"}, Num(87), <<Model2>>)
Item2 == RawMedia({"req-2"}, "dict", {"ANALYZING"}, Absent, <<>>)
Item3 == RawMedia({"req-3"}, "scalar", {}, Absent, <<>>)

ListBodies ==
    { RawList({2}, {1}, {0}, {2}, {<<Item1, Item2>>}),
      RawList({0}, {0}, {0}, {0}, {<<>>}),
      RawList({2}, {}, {0}, {2}, {<<Item1, Item2>>}),
      RawList({}, {1}, {0}, {2}, {<<Item1, Item2>>}),
      RawList({2}, {1}, {}, {2}, {<<Item1, Item2>>}),
      RawList({2}, {1}, {0}, {}, {<<Item1, Item2>>}),
      RawList({2}, {1}, {0}, {2}, {}),
      RawList({2}, {1}, {0}, {2}, {<<Item1, Item3>>}) }

ListResponses ==
    {Json(b) : b \in ListBodies} \cup {Failure(c) : c \in TransportCodes} \cup {Crash}

\* Statuses below, at and above 400.
Statuses == {200, 399, 400, 401, 403, 404, 500}

\* Bodies of a POST answer: a complete signed-URL answer, and answers with
\* an id or the signed URL missing or empty, or with `response` no object.
Bodies ==
    { RawBody({}, {"req-1"}, {"media-1"}, "dict", {"https://bucket/put"}),
      RawBody({}, {}, {"media-1"}, "dict", {"https://bucket/put"}),
      RawBody({}, {""}, {"media-1"}, "dict", {"https://bucket/put"}),
      RawBody({}, {"req-1"}, {}, "dict", {"https://bucket/put"}),
      RawBody({}, {"req-1"}, {"media-1"}, "absent", {}),
      RawBody({}, {"req-1"}, {"media-1"}, "dict", {}),
      RawBody({}, {"req-1"}, {"media-1"}, "dict", {""}),
      RawBody({}, {"req-1"}, {"media-1"}, "scalar", {}),
      RawBody({"free-tier-not-allowed"}, {}, {}, "scalar", {}),
      RawBody({"upload-limit-reached"}, {}, {}, "scalar", {}),
      RawBody({"bad-request"}, {}, {}, "scalar", {}),
      RawBody({""}, {"req-1"}, {"media-1"}, "dict", {"https://bucket/put"}) }

HttpResponses ==
    {HttpResponse(s, TRUE, b) : s \in Statuses, b \in Bodies}
        \cup {HttpResponse(s, FALSE, NoBody) : s \in Statuses}

PostAnswers == {Http(h) : h \in HttpResponses} \cup {ClientError, OtherError}

\* The answer to a PUT is read for its status only.
PutAnswers ==
    {Http(HttpResponse(s, FALSE, NoBody)) : s \in Statuses}
        \cup {ClientError, OtherError}

FilePaths == {"", "clip.mp4"}

\* "", "   ", a text urlparse rejects, "example.com/v/1", "ftp://example.com/v",
\* "https:///v/1", "https://exa_mple/v/1", "https://example.com/v/1" and
\* "http://example.com/v/1".
Links ==
    { Link("empty", TRUE, "", "", FALSE),
      Link("blank", TRUE, "", "", FALSE),
      Link("text", FALSE, "", "", FALSE),
      Link("text", TRUE, "", "", FALSE),
      Link("text", TRUE, "ftp", "example.com", TRUE),
      Link("text", TRUE, "https", "", FALSE),
      Link("text", TRUE, "https", "exa_mple", FALSE),
      Link("text", TRUE, "https", "example.com", TRUE),
      Link("text", TRUE, "http", "example.com", TRUE) }

NoLink == Link("empty", TRUE, "", "", FALSE)

Callers ==
    { Caller("none", FALSE), Caller("closed", FALSE), Caller("idle", FALSE),
      Caller("running", FALSE), Caller("running", TRUE) }

ApiKeys == {"", "key-1"}

\* The calls made through a synchronous variant.
SyncCoroutines ==
    { Coroutine("get_result", <<"req-1", 0>>),
      Coroutine("get_result", <<"req-1", 1>>),
      Coroutine("get_results", <<1>>),
      Coroutine("upload", <<"clip.mp4">>),
      Coroutine("upload_social_media",
                <<Link("text", TRUE, "https", "example.com", TRUE)>>),
      Coroutine("poll_for_results",
                <<"req-1", {30000}, {4000},
                  [result |-> <<"ok">>, error |-> <<"ok">>]>>),
      Coroutine("poll_for_results",
                <<"req-1", {30000}, {4000},
                  [result |-> <<"raises">>, error |-> <<"ok">>]>>) }

\* The two calls made at the same time as tasks of one loop, those made
\* from two threads, and what their GETs are answered.
PollCalls ==
    << [interval |-> {2000}, timeout |-> {2000}],
       [interval |-> {1000}, timeout |-> {1000}] >>

ThreadCalls ==
    << [interval |-> {2000}, timeout |-> {2000}],
       [interval |-> {}, timeout |-> {4000}] >>

TaskResponses ==
    { Json(RawMedia({"req-1"}, "dict", {"ANALYZING"}, Absent, <<>>)),
      Json(RawMedia({"req-1"}, "dict", {"AUTHENTIC"}, Num(12), <<Model1, Model3>>)),
      Failure("not_found"),
      Failure("server_error") }

ThreadResponses ==
    { Json(RawMedia({"req-1"}, "dict", {"AUTHENTIC"}, Num(12), <<Model1, Model3>>)),
      Failure("server_error") }

TaskListeners ==
    { [result |-> <<"ok">>, error |-> <<"ok">>],
      [result |-> <<"raises">>, error |-> <<"ok">>] }

\* The callbacks registered on an emitter used on its own.
Callbacks == {"plain", "removes_self", "removes_plain", "emits", "raises"}

\* The file selected when the user asks for an analysis, the ways the try
\* block of _run_analysis ends, and what safe_upload is called with and
\* what rd_client.upload gives it.
Files == {"", "missing", "declined", "ok"}
Ways == {"success", "error_result", "timeout", "exception"}
Retries == {0, 1, 2, UPLOAD_RETRIES}
Backoffs == {1, UPLOAD_BACKOFF}
UploadOutcomes ==
    {Return(UploadResult("req-1", "media-1")), Raise("server_error"), Escape}

RequestIds == {"", "req-1"}
AttemptBudgets == (-1) .. MaxAttempts

\* Milliseconds, as poll_for_results takes them; {} is an argument left out.
PollingIntervals == {{}, {0}, {-1000}, {30000}}
Timeouts == {{}, {0}, {-1000}, {4000}}

\* The handlers registered for each event: none, handlers that return, a
\* result handler that raises, and handlers that all raise.
Listeners ==
    { [result |-> <<>>, error |-> <<>>],
      [result |-> <<"ok">>, error |-> <<"ok">>],
      [result |-> <<"raises">>, error |-> <<"ok">>],
      [result |-> <<"ok", "raises">>, error |-> <<"raises">>] }

----------------------------------------------------------------------------
(* The state after construction: no operation in progress.                 *)

Init ==
    /\ op = "idle"
    /\ request_id = ""
    /\ max_attempts = 0
    /\ attempts = 0
    /\ spc = "idle"
    /\ sret = Running
    /\ polling_interval = 0
    /\ timeout = 0
    /\ elapsed = 0
    /\ is_completed = FALSE
    /\ ppc = "idle"
    /\ pret = Running
    /\ args = [polling_interval |-> {}, timeout |-> {}]
    /\ events = [result |-> <<>>, error |-> <<>>]
    /\ emitted = <<>>
    /\ fetches = 0
    /\ sleeps = 0
    /\ rounds = 0
    /\ waits = 0
    /\ log = <<>>
    /\ session = "none"
    /\ sessions = 0
    /\ file_path = ""
    /\ social_media_link = NoLink
    /\ signed_url_response = {}
    /\ upc = "idle"
    /\ uret = Running
    /\ calls = <<>>
    /\ answers = <<>>
    /\ bridge = NoBridge
    /\ cret = Running
    /\ cleanups = 0
    /\ closes = 0
    /\ tasks = [i \in 1 .. 2 |-> NoTask]
    /\ sched = [submitted |-> <<>>, started |-> <<>>, heard |-> {},
                ended_before |-> {}]
    /\ emitter = NewEmitter
    /\ app = NewApp

bridgeVars == <<bridge, cret, cleanups, closes>>

taskVars == <<tasks, sched>>

\* The coroutine starts: called by the user on the loop, or handed to the
\* loop by _run_async, once the loop can run it.
Called(name, a) ==
    \/ op = "idle"
    \/ /\ op = "sync"
       /\ bridge.state = "called"
       /\ LoopRuns(bridge)
       /\ bridge.coro[1] = name
       /\ bridge.coro[2] = a

uploadVars == <<file_path, social_media_link, signed_url_response, upc, uret,
                calls, answers>>

pollerVars == <<polling_interval, timeout, elapsed, is_completed, ppc, pret,
                args, events, emitted, rounds, waits>>

----------------------------------------------------------------------------
(* get_result -> get_detection_result, called by the user.                 *)

\* The call, to its first suspension: the request id check, attempts = 0,
\* and the first GET issued.
get_result(rid, max) ==
    /\ Called("get_result", <<rid, max>>)
    /\ op' = "get_result"
    /\ request_id' = rid
    /\ max_attempts' = max
    /\ attempts' = 0
    /\ IF rid = ""
       THEN /\ spc' = "done"
            /\ sret' = Raise("not_found")
            /\ fetches' = fetches
       ELSE /\ spc' = "fetch"
            /\ sret' = Running
            /\ fetches' = Inc(fetches)
    /\ session' = IF rid = "" THEN session ELSE ensure_session(session)
    /\ sessions' = IF rid = "" THEN sessions ELSE sessions + new_session(session)
    /\ UNCHANGED <<sleeps, log>>
    /\ UNCHANGED pollerVars
    /\ UNCHANGED uploadVars
    /\ UNCHANGED bridgeVars
    /\ UNCHANGED emitter
    /\ UNCHANGED app
    /\ UNCHANGED taskVars

\* The GET answers r: the rest of the loop pass, to the sleep or the end.
get_detection_result_fetched(r) ==
    /\ op = "get_result"
    /\ spc = "fetch"
    /\ LET s == get_detection_result_step(r, attempts, max_attempts) IN
       /\ attempts' = s.attempts
       /\ spc' = s.next
       /\ sret' = s.ret
       /\ sleeps' = IF s.next = "sleep" THEN Inc(sleeps) ELSE sleeps
    /\ log' = Append(log, r)
    /\ UNCHANGED <<op, request_id, max_attempts, fetches, session, sessions>>
    /\ UNCHANGED pollerVars
    /\ UNCHANGED uploadVars
    /\ UNCHANGED bridgeVars
    /\ UNCHANGED emitter
    /\ UNCHANGED app
    /\ UNCHANGED taskVars

\* The sleep of a polling loop is over: the loop test, and the next GET,
\* or the timeout error that follows the loop of get_detection_results.
polling_sleep_over ==
    /\ spc = "sleep"
    /\ IF op = "get_results" /\ ~(attempts < max_attempts)
       THEN /\ spc' = "done"
            /\ sret' = Raise("timeout")
            /\ fetches' = fetches
       ELSE /\ spc' = "fetch"
            /\ sret' = sret
            /\ fetches' = Inc(fetches)
    /\ session' = IF op = "get_results" /\ ~(attempts < max_attempts)
                  THEN session ELSE ensure_session(session)
    /\ sessions' = IF op = "get_results" /\ ~(attempts < max_attempts)
                  THEN sessions ELSE sessions + new_session(session)
    /\ UNCHANGED <<op, request_id, max_attempts, attempts, sleeps, log>>
    /\ UNCHANGED pollerVars
    /\ UNCHANGED uploadVars
    /\ UNCHANGED bridgeVars
    /\ UNCHANGED emitter
    /\ UNCHANGED app
    /\ UNCHANGED taskVars

----------------------------------------------------------------------------
(* get_results -> get_detection_results, called by the user.  The page     *)
(* number, the page size and the filters only shape the query.             *)

\* The call, to its first suspension: attempts = 0, the loop test, and the
\* first GET issued or the timeout error after the loop.
get_results(max) ==
    /\ Called("get_results", <<max>>)
    /\ op' = "get_results"
    /\ max_attempts' = max
    /\ attempts' = 0
    /\ IF 0 < max
       THEN /\ spc' = "fetch"
            /\ sret' = Running
            /\ fetches' = Inc(fetches)
       ELSE /\ spc' = "done"
            /\ sret' = Raise("timeout")
            /\ fetches' = fetches
    /\ session' = IF 0 < max THEN ensure_session(session) ELSE session
    /\ sessions' = IF 0 < max THEN sessions + new_session(session) ELSE sessions
    /\ UNCHANGED <<request_id, sleeps, log>>
    /\ UNCHANGED pollerVars
    /\ UNCHANGED uploadVars
    /\ UNCHANGED bridgeVars
    /\ UNCHANGED emitter
    /\ UNCHANGED app
    /\ UNCHANGED taskVars

\* The GET answers r: the rest of the loop pass, to the sleep or the end.
get_detection_results_fetched(r) ==
    /\ op = "get_results"
    /\ spc = "fetch"
    /\ LET s == get_detection_results_attempt(r, attempts, max_attempts) IN
       /\ attempts' = s.attempts
       /\ spc' = s.next
       /\ sret' = s.ret
       /\ sleeps' = IF s.next = "sleep" THEN Inc(sleeps) ELSE sleeps
    /\ log' = Append(log, r)
    /\ UNCHANGED <<op, request_id, max_attempts, fetches, session, sessions>>
    /\ UNCHANGED pollerVars
    /\ UNCHANGED uploadVars
    /\ UNCHANGED bridgeVars
    /\ UNCHANGED emitter
    /\ UNCHANGED app
    /\ UNCHANGED taskVars

----------------------------------------------------------------------------
(* poll_for_results, with the handlers registered before the call.         *)

\* poll_for_results has reached p, its nested get_result call having ended
\* with ret (or none being in progress): its locals, and the GET of the
\* get_result call it starts.
PollerGoes(p, ret) ==
    /\ ppc' = p.ppc
    /\ elapsed' = p.elapsed
    /\ is_completed' = p.is_completed
    /\ emitted' = p.emitted
    /\ pret' = p.pret
    /\ waits' = p.waits
    /\ rounds' = p.rounds
    /\ sleeps' = IF p.ppc = "sleep" THEN Inc(sleeps) ELSE sleeps
    /\ IF p.ppc = "get_result"
       THEN /\ spc' = "fetch"
            /\ sret' = Running
            /\ attempts' = 0
            /\ max_attempts' = DEFAULT_MAX_ATTEMPTS
            /\ fetches' = Inc(fetches)
            /\ session' = ensure_session(session)
            /\ sessions' = sessions + new_session(session)
       ELSE /\ spc' = IF spc = "fetch" THEN "done" ELSE spc
            /\ sret' = ret
            /\ UNCHANGED <<attempts, max_attempts, fetches, session, sessions>>

\* The call, to its first suspension or to its end.
poll_for_results(rid, interval, time, handlers) ==
    /\ Called("poll_for_results", <<rid, interval, time, handlers>>)
    /\ op' = "poll_for_results"
    /\ request_id' = rid
    /\ args' = [polling_interval |-> interval, timeout |-> time]
    /\ events' = handlers
    /\ LET pi == OrDefault(interval, DEFAULT_POLLING_INTERVAL)
           max_wait_time == OrDefault(time, DEFAULT_TIMEOUT)
       IN /\ polling_interval' = pi
          /\ timeout' = max_wait_time
          /\ PollerGoes(
               IF max_wait_time <= 0
               THEN Stop(0, emit(emitted, handlers, Event("error", {}, "timeout")),
                         FALSE, 0, 0)
               ELSE poll_for_results_loop(rid, 0, emitted, handlers, pi,
                                          max_wait_time, 0, 0),
               sret)
    /\ UNCHANGED log
    /\ UNCHANGED uploadVars
    /\ UNCHANGED bridgeVars
    /\ UNCHANGED emitter
    /\ UNCHANGED app
    /\ UNCHANGED taskVars

\* The GET of the nested get_result answers r: the rest of its loop pass,
\* and when the call ends there, the rest of the poller's loop body.
poll_for_results_fetched(r) ==
    /\ op = "poll_for_results"
    /\ ppc = "get_result"
    /\ spc = "fetch"
    /\ LET s == get_detection_result_step(r, attempts, max_attempts) IN
       IF s.next = "sleep"
       THEN /\ attempts' = s.attempts
            /\ spc' = "sleep"
            /\ sleeps' = Inc(sleeps)
            /\ UNCHANGED <<sret, max_attempts, fetches, session, sessions>>
            /\ UNCHANGED <<elapsed, is_completed, ppc, pret, emitted, rounds, waits>>
       ELSE PollerGoes(poll_for_results_handle(s.ret, elapsed, emitted, events,
                                               polling_interval, waits, rounds),
                       s.ret)
    /\ UNCHANGED <<op, request_id, polling_interval, timeout, args, events, log>>
    /\ UNCHANGED uploadVars
    /\ UNCHANGED bridgeVars
    /\ UNCHANGED emitter
    /\ UNCHANGED app
    /\ UNCHANGED taskVars

\* The poller's own sleep is over: the while test, and what follows it.
poll_for_results_sleep_over ==
    /\ op = "poll_for_results"
    /\ ppc = "sleep"
    /\ PollerGoes(poll_for_results_loop(request_id, elapsed, emitted, events,
                                        polling_interval, timeout, waits, rounds),
                  sret)
    /\ UNCHANGED <<op, request_id, polling_interval, timeout, args, events, log>>
    /\ UNCHANGED uploadVars
    /\ UNCHANGED bridgeVars
    /\ UNCHANGED emitter
    /\ UNCHANGED app
    /\ UNCHANGED taskVars

----------------------------------------------------------------------------
(* upload -> upload_file, and upload_social_media ->                       *)
(* upload_social_media_link, called by the user.                           *)

pollingVars == <<request_id, max_attempts, attempts, spc, sret, fetches,
                 sleeps, log>>

\* The call, to its first suspension: the file_path test, and the
\* signed-URL POST issued on the session post ensures.
upload(path) ==
    /\ Called("upload", <<path>>)
    /\ op' = "upload"
    /\ file_path' = path
    /\ IF path = ""
       THEN /\ upc' = "done"
            /\ uret' = Raise("invalid_file")
            /\ UNCHANGED <<session, sessions, calls>>
       ELSE /\ upc' = "post"
            /\ uret' = Running
            /\ session' = ensure_session(session)
            /\ sessions' = sessions + new_session(session)
            /\ calls' = Append(calls, "POST")
    /\ UNCHANGED <<social_media_link, signed_url_response, answers>>
    /\ UNCHANGED pollingVars
    /\ UNCHANGED bridgeVars
    /\ UNCHANGED emitter
    /\ UNCHANGED app
    /\ UNCHANGED taskVars
    /\ UNCHANGED pollerVars

\* The signed-URL POST answers a, and get_file_info gives info when it is
\* called: the checks, and the PUT issued or the end of the call.
upload_posted(a, info) ==
    /\ op = "upload"
    /\ upc = "post"
    /\ LET s == upload_file_posted(a, info)
           r == get_signed_url(a)
       IN /\ upc' = s.next
          /\ uret' = s.ret
          /\ signed_url_response' = IF r.t = "json" THEN r.body ELSE {}
          /\ calls' = IF s.next = "put" THEN Append(calls, "PUT") ELSE calls
    /\ answers' = Append(answers, a)
    /\ UNCHANGED <<op, session, sessions, file_path, social_media_link>>
    /\ UNCHANGED pollingVars
    /\ UNCHANGED bridgeVars
    /\ UNCHANGED emitter
    /\ UNCHANGED app
    /\ UNCHANGED taskVars
    /\ UNCHANGED pollerVars

\* The PUT to the signed URL answers a.
upload_put_answered(a) ==
    /\ op = "upload"
    /\ upc = "put"
    /\ LET s == upload_to_signed_url_answered(
                    a, OrElse(signed_url_response, NoBody))
       IN /\ upc' = s.next
          /\ uret' = s.ret
    /\ answers' = Append(answers, a)
    /\ UNCHANGED <<op, session, sessions, file_path, social_media_link,
                   signed_url_response, calls>>
    /\ UNCHANGED pollingVars
    /\ UNCHANGED bridgeVars
    /\ UNCHANGED emitter
    /\ UNCHANGED app
    /\ UNCHANGED taskVars
    /\ UNCHANGED pollerVars

\* The call, to its first suspension: the validation of the link, then
\* ensure_session and the POST issued.
upload_social_media(l) ==
    /\ Called("upload_social_media", <<l>>)
    /\ op' = "upload_social_media"
    /\ social_media_link' = l
    /\ IF upload_social_media_link_valid(l)
       THEN /\ upc' = "post"
            /\ uret' = Running
            /\ session' = ensure_session(session)
            /\ sessions' = sessions + new_session(session)
            /\ calls' = Append(calls, "POST")
       ELSE /\ upc' = "done"
            /\ uret' = Raise("invalid_request")
            /\ UNCHANGED <<session, sessions, calls>>
    /\ UNCHANGED <<file_path, signed_url_response, answers>>
    /\ UNCHANGED pollingVars
    /\ UNCHANGED bridgeVars
    /\ UNCHANGED emitter
    /\ UNCHANGED app
    /\ UNCHANGED taskVars
    /\ UNCHANGED pollerVars

\* The POST of the link answers a.
upload_social_media_posted(a) ==
    /\ op = "upload_social_media"
    /\ upc = "post"
    /\ LET s == upload_social_media_link_posted(a)
       IN /\ upc' = s.next
          /\ uret' = s.ret
    /\ answers' = Append(answers, a)
    /\ UNCHANGED <<op, session, sessions, file_path, social_media_link,
                   signed_url_response, calls>>
    /\ UNCHANGED pollingVars
    /\ UNCHANGED bridgeVars
    /\ UNCHANGED emitter
    /\ UNCHANGED app
    /\ UNCHANGED taskVars
    /\ UNCHANGED pollerVars

----------------------------------------------------------------------------
(* The synchronous variants and cleanup.                                   *)

\* The operation has ended, and how.
Finished ==
    \/ op \in {"get_result", "get_results"} /\ spc = "done"
    \/ op = "poll_for_results" /\ ppc = "done"
    \/ op \in {"upload", "upload_social_media"} /\ upc = "done"

Outcome ==
    CASE op \in {"get_result", "get_results"} -> sret
      [] op = "poll_for_results" -> pret
      [] OTHER -> uret

\* A synchronous variant is called from the thread c with the coroutine
\* coro: _run_async, to the point where the coroutine is handed to the loop.
run_async(c, coro) ==
    /\ op = "idle"
    /\ bridge = NoBridge
    /\ cleanups = 0
    /\ op' = "sync"
    /\ bridge' = run_async_enter(c, coro)
    /\ UNCHANGED <<cret, cleanups, closes, session, sessions>>
    /\ UNCHANGED pollingVars
    /\ UNCHANGED pollerVars
    /\ UNCHANGED uploadVars
    /\ UNCHANGED taskVars
    /\ UNCHANGED emitter
    /\ UNCHANGED app

\* The coroutine has ended: _run_async hands its outcome to the caller.
run_async_returned ==
    /\ bridge.state = "called"
    /\ Finished
    /\ bridge' = [bridge EXCEPT !.state = "returned"]
    /\ cret' = run_async_leave(Outcome)
    /\ UNCHANGED <<op, cleanups, closes, session, sessions>>
    /\ UNCHANGED pollingVars
    /\ UNCHANGED pollerVars
    /\ UNCHANGED uploadVars
    /\ UNCHANGED taskVars
    /\ UNCHANGED emitter
    /\ UNCHANGED app

\* cleanup, before any operation, after an upload has ended, or after an
\* earlier cleanup: HttpClient.close.
cleanup ==
    /\ \/ op = "idle"
       \/ op = "cleanup"
       \/ op \in {"upload", "upload_social_media"} /\ Finished
    /\ bridge.state \in {"none", "returned"}
    /\ cleanups < MaxCleanups
    /\ op' = "cleanup"
    /\ cleanups' = cleanups + 1
    /\ session' = close(session).session
    /\ sessions' = sessions
    /\ closes' = closes + close(session).closed
    /\ UNCHANGED <<bridge, cret>>
    /\ UNCHANGED pollingVars
    /\ UNCHANGED pollerVars
    /\ UNCHANGED uploadVars
    /\ UNCHANGED taskVars
    /\ UNCHANGED emitter
    /\ UNCHANGED app

----------------------------------------------------------------------------
(* Two poll_for_results calls at once: as two tasks of one running loop,   *)
(* or through poll_for_results_sync from two threads.                      *)

\* Two poll_for_results coroutines are made tasks of the user's running
\* loop, one after the other.
gather(handlers) ==
    /\ op = "idle"
    /\ op' = "gather"
    /\ events' = handlers
    /\ tasks' = [i \in 1 .. 2 |->
                    Task(PollCalls[i].interval, PollCalls[i].timeout, 0)]
    /\ sched' = [sched EXCEPT !.submitted = <<1, 2>>]
    /\ request_id' = "req-1"
    /\ UNCHANGED <<max_attempts, attempts, spc, sret, fetches, sleeps, log>>
    /\ UNCHANGED <<polling_interval, timeout, elapsed, is_completed, ppc, pret,
                   args, emitted, rounds, waits>>
    /\ UNCHANGED <<session, sessions>>
    /\ UNCHANGED uploadVars
    /\ UNCHANGED bridgeVars
    /\ UNCHANGED emitter
    /\ UNCHANGED app

\* Thread i, which has no event loop yet, calls poll_for_results_sync with
\* an on_result and an on_error callback: both are registered with `on`,
\* and _run_async makes a new loop for the thread and hands it the
\* coroutine.
thread_calls(i) ==
    /\ op \in {"idle", "threads"}
    /\ tasks[i].ppc = "idle"
    /\ op' = "threads"
    /\ events' = on(on(events, "result", "ok"), "error", "ok")
    /\ tasks' = [tasks EXCEPT
                   ![i] = Task(ThreadCalls[i].interval, ThreadCalls[i].timeout, i)]
    /\ sched' = [sched EXCEPT
                   !.submitted = Append(@, i),
                   !.ended_before =
                       @ \cup {<<k, i>> : k \in {j \in 1 .. 2 : tasks[j].ppc = "done"}}]
    /\ request_id' = "req-1"
    /\ UNCHANGED <<max_attempts, attempts, spc, sret, fetches, sleeps, log>>
    /\ UNCHANGED <<polling_interval, timeout, elapsed, is_completed, ppc, pret,
                   args, emitted, rounds, waits>>
    /\ UNCHANGED <<session, sessions>>
    /\ UNCHANGED uploadVars
    /\ UNCHANGED bridgeVars
    /\ UNCHANGED emitter
    /\ UNCHANGED app

\* The callbacks called by the events task i has emitted in a step that
\* took its emitted events from `old` to `new`: all those registered for
\* the event.  The k-th callback of an event was passed to
\* poll_for_results_sync by the k-th call submitted.
Heard(old, new, ev, owners, i) ==
    { <<owners[k], i>> :
        k \in UNION { 1 .. Len(ev[new[n].event]) : n \in Len(old) + 1 .. Len(new) } }

\* sched after a step of task i that leaves it as t.
Hears(i, t) ==
    IF op = "threads"
    THEN [sched EXCEPT !.heard = @ \cup Heard(tasks[i].emitted, t.emitted,
                                              events, sched.submitted, i)]
    ELSE sched

\* Task j was handed to the loop of task i before it.
Before(j, i) ==
    \E m, n \in 1 .. Len(sched.submitted) :
        m < n /\ sched.submitted[m] = j /\ sched.submitted[n] = i

taskFrame ==
    /\ UNCHANGED <<op, events, request_id>>
    /\ UNCHANGED <<max_attempts, attempts, spc, sret, fetches, sleeps, log>>
    /\ UNCHANGED <<polling_interval, timeout, elapsed, is_completed, ppc, pret,
                   args, emitted, rounds, waits>>
    /\ UNCHANGED uploadVars
    /\ UNCHANGED bridgeVars
    /\ UNCHANGED emitter
    /\ UNCHANGED app

\* The loop of task i starts it, after the tasks it was handed before:
\* poll_for_results to its first suspension, the GET issued on the session
\* ensure_session gives.  Two tasks of one loop run ensure_session one after
\* the other; a task on a thread of its own runs it while the other thread
\* runs too, and is followed here to its test of self.session.
task_starts(i) ==
    /\ op \in {"gather", "threads"}
    /\ tasks[i].ppc = "called"
    /\ \A j \in 1 .. 2 :
           (tasks[j].loop = tasks[i].loop /\ Before(j, i)) => tasks[j].ppc # "called"
    /\ LET t == task_begin(tasks[i], request_id, events) IN
       sched' = [Hears(i, t) EXCEPT !.started = Append(@, i)]
    /\ LET t == task_begin(tasks[i], request_id, events) IN
       IF t.ppc # "get_result"
       THEN /\ tasks' = [tasks EXCEPT ![i] = t]
            /\ UNCHANGED <<session, sessions>>
       ELSE IF op = "threads"
       THEN /\ tasks' = [tasks EXCEPT
                           ![i] = [t EXCEPT !.ppc = "ensure_session",
                                            !.saw = session]]
            /\ UNCHANGED <<session, sessions>>
       ELSE /\ tasks' = [tasks EXCEPT ![i] = t]
            /\ session' = ensure_session(session)
            /\ sessions' = sessions + new_session(session)
    /\ taskFrame

\* Thread i goes on in ensure_session after its test: the new ClientSession
\* is assigned to self.session if the test saw none, and the GET is issued.
task_session_ensured(i) ==
    /\ op = "threads"
    /\ tasks[i].ppc = "ensure_session"
    /\ tasks' = [tasks EXCEPT ![i].ppc = "get_result"]
    /\ session' = ensure_session(session)
    /\ sessions' = sessions + new_session(tasks[i].saw)
    /\ UNCHANGED sched
    /\ taskFrame

\* The GET of task i is answered with r.
task_get_answered(i, r) ==
    /\ op \in {"gather", "threads"}
    /\ tasks[i].ppc = "get_result"
    /\ tasks[i].spc = "fetch"
    /\ tasks' = [tasks EXCEPT ![i] = task_fetched(tasks[i], r, events)]
    /\ sched' = Hears(i, tasks'[i])
    /\ UNCHANGED <<session, sessions>>
    /\ taskFrame

\* A sleep of task i is over: that of its nested get_result, or its own.
task_wakes(i) ==
    /\ op \in {"gather", "threads"}
    /\ \/ /\ tasks[i].ppc = "get_result"
          /\ tasks[i].spc = "sleep"
          /\ tasks' = [tasks EXCEPT ![i].spc = "fetch"]
       \/ /\ tasks[i].ppc = "sleep"
          /\ tasks' = [tasks EXCEPT
                         ![i] = task_sleep_over(tasks[i], request_id, events)]
    /\ sched' = Hears(i, tasks'[i])
    /\ UNCHANGED <<session, sessions>>
    /\ taskFrame

----------------------------------------------------------------------------
(* An EventEmitter used on its own: handlers are registered with on and    *)
(* once, then the user calls emit.                                         *)

emitterFrame ==
    /\ UNCHANGED <<request_id, max_attempts, attempts, spc, sret, fetches,
                   sleeps, log>>
    /\ UNCHANGED pollerVars
    /\ UNCHANGED uploadVars
    /\ UNCHANGED <<bridge, cret, cleanups, closes>>
    /\ UNCHANGED taskVars
    /\ UNCHANGED <<session, sessions>>
    /\ UNCHANGED app

\* on(event, cb), or once(event, cb), called before the first emit.
register(event, cb, once) ==
    /\ op \in {"idle", "emitter"}
    /\ emitter.emits = 0
    /\ Len(Registered(emitter, "result")) + Len(Registered(emitter, "error"))
           < MaxHandlers
    /\ op' = "emitter"
    /\ emitter' = IF once THEN emitter_once(emitter, event, cb)
                  ELSE emitter_on(emitter, event, OnEl(cb))
    /\ emitterFrame

\* The user calls emit(event) while no emit is in progress.
emit_called(event) ==
    /\ op \in {"idle", "emitter"}
    /\ emitter.stack = <<>>
    /\ emitter.calls < MaxEmits
    /\ op' = "emitter"
    /\ emitter' = [emitter_emit(emitter, event) EXCEPT !.calls = @ + 1]
    /\ emitterFrame

\* The innermost emit in progress goes on by one pass of its loop.
emit_goes_on ==
    /\ op = "emitter"
    /\ emitter.stack # <<>>
    /\ emitter' = emit_next(emitter)
    /\ UNCHANGED op
    /\ emitterFrame

----------------------------------------------------------------------------
(* The desktop app: the user asks for analyses; safe_upload on its own.    *)

appFrame ==
    /\ UNCHANGED <<request_id, max_attempts, attempts, spc, sret, fetches,
                   sleeps, log>>
    /\ UNCHANGED pollerVars
    /\ UNCHANGED uploadVars
    /\ UNCHANGED <<bridge, cret, cleanups, closes>>
    /\ UNCHANGED taskVars
    /\ UNCHANGED <<session, sessions>>
    /\ UNCHANGED emitter

\* The threads that are in the try block of _run_analysis.
Analysing == {i \in 1 .. Len(app.threads) : app.threads[i].pos = "try"}

\* analyze_file, on the main thread: the request is refused, or
\* is_analyzing is set and a thread is started.
analyze_file(file) ==
    /\ op \in {"idle", "app"}
    /\ app.up.pc = "idle"
    /\ Len(app.requests) < MaxRequests
    /\ op' = "app"
    /\ LET starts == analyze_file_starts(app.is_analyzing, file) IN
       app' = [app EXCEPT
                 !.requests = Append(@, [file |-> file,
                                         is_analyzing |-> app.is_analyzing,
                                         analysing |-> Analysing,
                                         started |-> starts]),
                 !.is_analyzing = IF starts THEN TRUE ELSE @,
                 !.threads = IF starts THEN Append(@, Thread("try", "")) ELSE @]
    /\ appFrame

\* The try block of thread i ends in some way, and the finally block sets
\* is_analyzing.
run_analysis_ends(i, way) ==
    /\ op = "app"
    /\ i \in 1 .. Len(app.threads)
    /\ app.threads[i].pos = "try"
    /\ app' = [app EXCEPT !.threads[i] = Thread("reset", way),
                          !.is_analyzing = run_analysis_finally(way)]
    /\ UNCHANGED op
    /\ appFrame

\* Thread i has asked the main thread to enable the button again, has
\* written its last log line, and ends.
run_analysis_exits(i) ==
    /\ op = "app"
    /\ i \in 1 .. Len(app.threads)
    /\ app.threads[i].pos = "reset"
    /\ app' = [app EXCEPT !.threads[i].pos = "ended"]
    /\ UNCHANGED op
    /\ appFrame

\* safe_upload is called: attempt = 0 and the loop test.
safe_upload(retries, backoff) ==
    /\ op = "idle"
    /\ op' = "safe_upload"
    /\ app' = [app EXCEPT
                 !.up = safe_upload_loop([NoUpload EXCEPT !.retries = retries,
                                                          !.backoff = backoff])]
    /\ appFrame

\* rd_client.upload ends with o.
safe_upload_answered(o) ==
    /\ op = "safe_upload"
    /\ app.up.pc = "upload"
    /\ app' = [app EXCEPT !.up = safe_upload_awaited(app.up, o)]
    /\ UNCHANGED op
    /\ appFrame

\* The sleep between two attempts is over: attempt += 1 and the loop test.
safe_upload_sleep_over ==
    /\ op = "safe_upload"
    /\ app.up.pc = "sleep"
    /\ app' = [app EXCEPT !.up = safe_upload_loop([app.up EXCEPT !.attempt = @ + 1])]
    /\ UNCHANGED op
    /\ appFrame

Next ==
    \/ \E rid \in RequestIds, max \in AttemptBudgets : get_result(rid, max)
    \/ \E r \in MediaResponses : get_detection_result_fetched(r)
    \/ polling_sleep_over
    \/ \E max \in AttemptBudgets : get_results(max)
    \/ \E r \in ListResponses : get_detection_results_fetched(r)
    \/ \E rid \in RequestIds, interval \in PollingIntervals, time \in Timeouts,
          handlers \in Listeners : poll_for_results(rid, interval, time, handlers)
    \/ \E r \in MediaResponses : poll_for_results_fetched(r)
    \/ poll_for_results_sleep_over
    \/ \E path \in FilePaths : upload(path)
    \/ \E a \in PostAnswers, info \in FileInfos : upload_posted(a, info)
    \/ \E a \in PutAnswers : upload_put_answered(a)
    \/ \E l \in Links : upload_social_media(l)
    \/ \E a \in PostAnswers : upload_social_media_posted(a)
    \/ \E c \in Callers, coro \in SyncCoroutines : run_async(c, coro)
    \/ run_async_returned
    \/ cleanup
    \/ \E handlers \in TaskListeners : gather(handlers)
    \/ \E i \in 1 .. 2 : thread_calls(i)
    \/ \E i \in 1 .. 2 : task_starts(i)
    \/ \E i \in 1 .. 2 : task_session_ensured(i)
    \/ \E i \in 1 .. 2 :
          \E r \in IF op = "threads" THEN ThreadResponses ELSE TaskResponses :
              task_get_answered(i, r)
    \/ \E i \in 1 .. 2 : task_wakes(i)
    \/ \E cb \in Callbacks, once \in BOOLEAN : register("result", cb, once)
    \/ \E once \in BOOLEAN : register("error", "plain", once)
    \/ \E event \in EventNames : emit_called(event)
    \/ emit_goes_on
    \/ \E file \in Files : analyze_file(file)
    \/ \E i \in 1 .. MaxRequests, way \in Ways : run_analysis_ends(i, way)
    \/ \E i \in 1 .. MaxRequests : run_analysis_exits(i)
    \/ \E retries \in Retries, backoff \in Backoffs : safe_upload(retries, backoff)
    \/ \E o \in UploadOutcomes : safe_upload_answered(o)
    \/ safe_upload_sleep_over

Spec == Init /\ [][Next]_vars

\* The event loop runs a coroutine that can run: a GET answers or fails, a
\* sleep ends.
FairSpec == Spec /\ WF_vars(Next)

----------------------------------------------------------------------------
(* Reading the log of a polling call.                                      *)

\* The fetch gave a payload that formats, with this formatted result.
Formats(r) == r.t = "json" /\ format_result(The(r.body)).ok
Formatted(r) == format_result(The(r.body)).result
HasStatus(r, st) == Formats(r) /\ Formatted(r).status = st

\* A formatted status on which polling stops / goes on.
Terminal(r) == Formats(r) /\ Formatted(r).status \notin {"ANALYZING", "UNKNOWN"}
NonTerminal(r) == Formats(r) /\ Formatted(r).status \in {"ANALYZING", "UNKNOWN"}

\* The fetch failed with a domain error of this kind, as get_media_result
\* hands it to the polling loop.
FailedWith(r, code) == get_media_result(r).t = "error" /\ get_media_result(r).code = code

\* A non-domain failure: in the transport, or in formatting the payload.
TransportCrash(r) == r.t = "exception"
FormatCrash(r) == r.t = "json" /\ ~format_result(The(r.body)).ok

\* A user's get_result call on a real request id with a budget of at least 1.
PollSingle == op = "get_result" /\ request_id # "" /\ max_attempts >= 1

----------------------------------------------------------------------------
(* Claims.                                                                 *)

\* C1: in get_detection_result with max_attempts >= 1, a fetch whose formatted
\* status is neither ANALYZING nor UNKNOWN is the last one: the call has
\* returned that formatted result, and no sleep and no fetch followed it (i
\* fetches and i - 1 sleeps in all).  With max_attempts = 3 and the answers
\* ANALYZING, ANALYZING, AUTHENTIC it returned the AUTHENTIC result within 3
\* fetches.
C1_TerminalReturnsAtOnce ==
    PollSingle =>
        /\ \A i \in 1 .. Len(log) :
              Terminal(log[i]) =>
                  /\ i = Len(log)
                  /\ spc = "done"
                  /\ sret = Return(Formatted(log[i]))
                  /\ fetches = i
                  /\ sleeps = i - 1
        /\ ( /\ max_attempts = 3
             /\ Len(log) = 3
             /\ HasStatus(log[1], "ANALYZING")
             /\ HasStatus(log[2], "ANALYZING")
             /\ HasStatus(log[3], "AUTHENTIC") )
           => /\ sret.kind = "return"
              /\ The(sret.result).status = "AUTHENTIC"
              /\ fetches <= 3

C1_Witness ==
    /\ PollSingle
    /\ max_attempts = 3
    /\ Len(log) = 3
    /\ HasStatus(log[1], "ANALYZING")
    /\ HasStatus(log[2], "ANALYZING")
    /\ HasStatus(log[3], "AUTHENTIC")
    /\ spc = "done"
    /\ sret.kind = "return"

\* C2: in get_detection_result with max_attempts = N >= 1, while every fetch
\* gave a non-terminal status (ANALYZING or UNKNOWN) no error is raised, the
\* call is still running before the N-th fetch has answered, and once it has
\* the call has returned the formatted result of the N-th fetch after
\* exactly N fetches.
C2_ExhaustionReturnsLastResult ==
    (PollSingle /\ \A i \in 1 .. Len(log) : NonTerminal(log[i])) =>
        /\ sret.kind \in {"none", "return"}
        /\ Len(log) <= max_attempts
        /\ Len(log) < max_attempts => spc # "done" /\ sret = Running
        /\ Len(log) = max_attempts =>
              /\ spc = "done"
              /\ sret = Return(Formatted(log[max_attempts]))
              /\ fetches = max_attempts

C2_Witness ==
    /\ PollSingle
    /\ max_attempts = 3
    /\ Len(log) = 3
    /\ \A i \in 1 .. 3 : HasStatus(log[i], "ANALYZING")
    /\ sret.kind = "return"
    /\ The(sret.result).status = "ANALYZING"

\* C3: in get_detection_result with max_attempts >= 1, every fetch that did
\* not end the call, a not_found failure like an ANALYZING result, has
\* consumed one attempt and one sleep; a not_found failure before the last
\* allowed fetch does not end the call; a not_found failure on the last
\* allowed fetch is re-raised, after exactly max_attempts fetches.
C3_NotFoundRetriedWithinBudget ==
    PollSingle =>
        /\ spc # "done" => attempts = Len(log)
        /\ spc = "sleep" => sleeps = Len(log)
        /\ spc = "fetch" => sleeps = Len(log) /\ fetches = Len(log) + 1
        /\ \A i \in 1 .. Len(log) :
              FailedWith(log[i], "not_found") =>
                  IF i < max_attempts
                  THEN ~(spc = "done" /\ Len(log) = i)
                  ELSE /\ i = max_attempts
                       /\ Len(log) = i
                       /\ spc = "done"
                       /\ sret = Raise("not_found")
                       /\ fetches = max_attempts

C3_Witness ==
    /\ PollSingle
    /\ max_attempts = 3
    /\ Len(log) = 3
    /\ HasStatus(log[1], "ANALYZING")
    /\ FailedWith(log[2], "not_found")
    /\ FailedWith(log[3], "not_found")
    /\ sret = Raise("not_found")
    /\ fetches = 3

\* C4: in get_detection_result, a fetch that fails with a domain error of a
\* kind other than not_found is the last one, whatever the budget: the call
\* has raised an error of that kind, and no sleep and no fetch followed.
C4_OtherErrorsRaisedAtOnce ==
    (op = "get_result") =>
        \A i \in 1 .. Len(log) : \A c \in ErrorCode \ {"not_found"} :
            FailedWith(log[i], c) =>
                /\ i = Len(log)
                /\ spc = "done"
                /\ sret = Raise(c)
                /\ fetches = i
                /\ sleeps = i - 1

C4_Witness ==
    /\ op = "get_result"
    /\ max_attempts = 3
    /\ Len(log) = 2
    /\ HasStatus(log[1], "ANALYZING")
    /\ FailedWith(log[2], "unauthorized")
    /\ sret = Raise("unauthorized")

ListFailedWith(r, code) ==
    get_media_results(r).t = "error" /\ get_media_results(r).code = code

\* C6: in get_detection_results, a fetch that fails with unauthorized, the
\* first one included, is the last one: the call has raised unauthorized,
\* and no sleep and no fetch followed, whatever budget was left.
C6_UnauthorizedNeverRetried ==
    (op = "get_results") =>
        \A i \in 1 .. Len(log) :
            ListFailedWith(log[i], "unauthorized") =>
                /\ i = Len(log)
                /\ spc = "done"
                /\ sret = Raise("unauthorized")
                /\ fetches = i
                /\ sleeps = i - 1

C6_Witness ==
    /\ op = "get_results"
    /\ max_attempts = 3
    /\ Len(log) = 1
    /\ ListFailedWith(log[1], "unauthorized")
    /\ attempts = 0
    /\ sret = Raise("unauthorized")

\* C7 as stated: in get_detection_results with max_attempts >= 1, a call
\* that ended with an error other than unauthorized has used its whole
\* budget and the error is of kind timeout.
C7_ExhaustionRaisesTimeout ==
    ( /\ op = "get_results"
      /\ max_attempts >= 1
      /\ spc = "done"
      /\ sret.kind = "raise"
      /\ sret.code # "unauthorized" )
    => /\ Len(log) = max_attempts
       /\ sret.code = "timeout"

TimeoutEvent == Event("error", {}, "timeout")

\* C8 as stated: every poll_for_results call emits exactly one terminal
\* event: never more than one, the coroutine has ended once it is emitted
\* (no fetch, sleep or emit follows), and one is emitted in the end.
C8_ExactlyOneTerminalEvent ==
    /\ [](op = "poll_for_results" =>
            /\ Len(emitted) <= 1
            /\ emitted # <<>> => ppc = "done")
    /\ (op = "poll_for_results") ~> (ppc = "done" /\ Len(emitted) = 1)

\* C9 as stated: poll_for_results called with a timeout of 0 or less has
\* ended at once with one error event of kind timeout and without a GET.
C9_NonPositiveTimeoutEmitsAtOnce ==
    ( /\ op = "poll_for_results"
      /\ args.timeout # {}
      /\ The(args.timeout) <= 0 )
    => /\ ppc = "done"
       /\ fetches = 0
       /\ emitted = <<TimeoutEvent>>

\* C10: in poll_for_results with a positive interval and a positive timeout,
\* every round that ended in ANALYZING or in a not_found error has added the
\* interval to elapsed; a GET is in progress only while elapsed < timeout;
\* nothing is emitted while the poller fetches or sleeps; and when every
\* round so far ended that way, no result event is emitted and a poller
\* that has ended has elapsed >= timeout and has emitted one error event of
\* kind timeout and nothing else.
C10_WaitingRoundsEndInTimeout ==
    (op = "poll_for_results" /\ polling_interval > 0 /\ timeout > 0) =>
        /\ elapsed = waits * polling_interval
        /\ ppc = "get_result" => elapsed < timeout /\ emitted = <<>>
        /\ ppc = "sleep" => emitted = <<>>
        /\ rounds = waits =>
              /\ \A i \in 1 .. Len(emitted) : emitted[i].event # "result"
              /\ ppc = "done" => elapsed >= timeout /\ emitted = <<TimeoutEvent>>

C10_Witness ==
    /\ op = "poll_for_results"
    /\ args.polling_interval = {30000}
    /\ args.timeout = {}
    /\ request_id # ""
    /\ rounds = 2
    /\ waits = 2
    /\ sret = Raise("not_found")
    /\ elapsed = 60000
    /\ ppc = "done"
    /\ emitted = <<TimeoutEvent>>

\* The nested get_result call of the poller returned a result with a status
\* other than ANALYZING.
PollerGotFinal ==
    /\ op = "poll_for_results"
    /\ sret.kind = "return"
    /\ The(sret.result).status # "ANALYZING"

\* C11: in poll_for_results, once get_result has returned a result whose
\* status is not ANALYZING (UNKNOWN included) the poller has stopped and has
\* emitted one result event, carrying exactly that result; a get_result that
\* returned ANALYZING emits no result event; and every result event emitted
\* is the first emit, carries the result get_result returned, and does not
\* have status ANALYZING.
C11_FirstFinalResultIsEmitted ==
    (op = "poll_for_results") =>
        /\ PollerGotFinal =>
              /\ ppc = "done"
              /\ spc = "done"
              /\ is_completed
              /\ emitted # <<>>
              /\ emitted[1] = Event("result", sret.result, "")
        /\ (sret.kind = "return" /\ The(sret.result).status = "ANALYZING") =>
              \A i \in 1 .. Len(emitted) : emitted[i].event # "result"
        /\ \A i \in 1 .. Len(emitted) :
              emitted[i].event = "result" =>
                  /\ i = 1
                  /\ emitted[i].result = sret.result
                  /\ The(emitted[i].result).status # "ANALYZING"

C11_Witness ==
    /\ PollerGotFinal
    /\ The(sret.result).status = "UNKNOWN"
    /\ ppc = "done"
    /\ emitted = <<Event("result", sret.result, "")>>

\* C12: in poll_for_results, once get_result has raised an error of a kind
\* other than not_found (unknown_error, into which a non-domain failure of
\* the fetch is converted, included) the poller has stopped and has emitted
\* one event and no more, an error event of that kind; no error event of
\* kind not_found is ever emitted, and after a get_result that raised
\* not_found nothing is emitted but, later, the timeout error.
C12_OtherErrorsAreEmitted ==
    (op = "poll_for_results") =>
        /\ (sret.kind = "raise" /\ sret.code # "not_found") =>
              /\ ppc = "done"
              /\ spc = "done"
              /\ is_completed
              /\ emitted = <<Event("error", {}, sret.code)>>
        /\ \A i \in 1 .. Len(emitted) :
              emitted[i].event = "error" => emitted[i].code # "not_found"
        /\ sret = Raise("not_found") =>
              \/ emitted = <<>>
              \/ ppc = "done" /\ emitted = <<TimeoutEvent>>

C12_Witness ==
    /\ op = "poll_for_results"
    /\ sret = Raise("unknown_error")
    /\ ppc = "done"
    /\ emitted = <<Event("error", {}, "unknown_error")>>

\* A get_result of the poller raised not_found and the poller sleeps.
C12_NotFoundWitness ==
    /\ op = "poll_for_results"
    /\ request_id # ""
    /\ sret = Raise("not_found")
    /\ ppc = "sleep"
    /\ emitted = <<>>

\* The least n with n * b >= a, for b > 0.
Ceil(a, b) == (a + b - 1) \div b

\* C13 as stated: in poll_for_results with a positive interval and a
\* positive timeout every loop iteration issues one GET, so that the GETs
\* of a call are no more than one per get_result call and no more than
\* ceil(timeout / polling_interval).
C13_OneFetchPerIteration ==
    (op = "poll_for_results" /\ polling_interval > 0 /\ timeout > 0) =>
        /\ fetches <= rounds + 1
        /\ fetches <= Ceil(timeout, polling_interval)

\* The error code in the body of an HTTP response, "" when there is none.
BodyCode(h) == IF h.parsed /\ h.body.code # {} THEN The(h.body.code) ELSE ""

\* C14: for every HTTP response a POST received, _handle_response gives:
\* unauthorized for status 400 with body code free-tier-not-allowed or
\* upload-limit-reached; invalid_request for any other status 400;
\* unauthorized for 401; not_found for 404; server_error for any other
\* status above 400 and for a status below 400 whose body failed to parse;
\* in every remaining case the parsed body, unchanged.  The error it gives
\* is the error upload_social_media_link raises.
C14_StatusMapping ==
    \A i \in 1 .. Len(answers) :
        (calls[i] = "POST" /\ answers[i].t = "http") =>
            LET h == The(answers[i].http)
                blocked == BodyCode(h) \in {"free-tier-not-allowed",
                                            "upload-limit-reached"}
            IN /\ (h.status = 400 /\ blocked) =>
                      handle_response(h) = Failure("unauthorized")
               /\ (h.status = 400 /\ ~blocked) =>
                      handle_response(h) = Failure("invalid_request")
               /\ h.status = 401 => handle_response(h) = Failure("unauthorized")
               /\ h.status = 404 => handle_response(h) = Failure("not_found")
               /\ (h.status > 400 /\ h.status \notin {401, 404}) =>
                      handle_response(h) = Failure("server_error")
               /\ (h.status < 400 /\ ~h.parsed) =>
                      handle_response(h) = Failure("server_error")
               /\ (h.status < 400 /\ h.parsed) =>
                      handle_response(h) = Json(h.body)
               /\ (op = "upload_social_media" /\ handle_response(h).t = "error") =>
                      uret = Raise(handle_response(h).code)

C14_Witness ==
    /\ op = "upload_social_media"
    /\ Len(answers) = 1
    /\ answers[1].t = "http"
    /\ The(answers[1].http).status = 400
    /\ BodyCode(The(answers[1].http)) = "upload-limit-reached"
    /\ uret = Raise("unauthorized")

\* The body of a signed-URL answer lacks a non-empty request id, media id
\* or signed URL.
Lacks(b) ==
    \/ b.requestId \in {{}, {""}}
    \/ b.mediaId \in {{}, {""}}
    \/ b.responseKind # "dict"
    \/ b.signedUrl \in {{}, {""}}

\* C15 as stated: upload_file whose signed-URL POST returned a body that
\* lacks a non-empty request id, media id or signed URL has ended with
\* server_error, without a PUT and without an UploadResult.
C15_MissingFieldIsServerError ==
    ( /\ op = "upload"
      /\ signed_url_response # {}
      /\ Lacks(The(signed_url_response)) )
    => /\ upc = "done"
       /\ uret = Raise("server_error")
       /\ calls = <<"POST">>

\* C16: in upload_file, once the PUT has answered the call has ended: with
\* an error of kind upload_failed and no UploadResult when the status is
\* >= 400, and with the UploadResult whose request_id and media_id are the
\* ids of the signed-URL answer when the status is < 400.
C16_PutStatusDecides ==
    (op = "upload" /\ Len(answers) = 2 /\ answers[2].t = "http") =>
        LET status == The(answers[2].http).status
            b == The(answers[1].http).body
        IN /\ upc = "done"
           /\ status >= 400 => uret = Raise("upload_failed")
           /\ status < 400 =>
                 /\ uret.kind = "return"
                 /\ The(uret.result).request_id = The(b.requestId)
                 /\ The(uret.result).media_id = b.mediaId

C16_Witness ==
    /\ op = "upload"
    /\ Len(answers) = 2
    /\ answers[2].t = "http"
    /\ The(answers[2].http).status = 400
    /\ uret = Raise("upload_failed")

\* An upload_file call has returned the ids of its signed-URL answer.
C16_ReturnWitness ==
    /\ op = "upload"
    /\ Len(answers) = 2
    /\ answers[2].t = "http"
    /\ The(answers[2].http).status = 399
    /\ uret = Return(UploadResult("req-1", {"media-1"}))

\* C17: an upload_file call issues its network calls in the order POST,
\* PUT, one of each at most; the PUT is issued only once the POST has
\* returned a body; and when the POST failed the call has ended with an
\* error and without a PUT.
C17_PostThenPut ==
    (op = "upload") =>
        /\ calls \in {<<>>, <<"POST">>, <<"POST", "PUT">>}
        /\ upc = "post" => calls = <<"POST">> /\ answers = <<>>
        /\ calls = <<"POST", "PUT">> =>
              /\ Len(answers) >= 1
              /\ get_signed_url(answers[1]).t = "json"
        /\ (Len(answers) >= 1 /\ get_signed_url(answers[1]).t = "error") =>
              /\ calls = <<"POST">>
              /\ upc = "done"
              /\ uret = Raise(get_signed_url(answers[1]).code)

C17_Witness ==
    /\ op = "upload"
    /\ Len(answers) = 1
    /\ answers[1] = ClientError
    /\ calls = <<"POST">>
    /\ uret = Raise("server_error")

\* The link is empty, blank, not http/https, without an authority, or has a
\* domain that is not valid.
LinkInvalid(l) ==
    \/ l.text \in {"empty", "blank"}
    \/ l.scheme \notin {"http", "https"}
    \/ l.netloc = ""
    \/ ~l.domain

\* C18: upload_social_media_link given a link that is empty, blank, not
\* http/https, without an authority or with an invalid domain has raised
\* invalid_request: no session was created and no POST was issued.
C18_InvalidLinkRaisesBeforeNetwork ==
    (op = "upload_social_media" /\ LinkInvalid(social_media_link)) =>
        /\ upc = "done"
        /\ uret = Raise("invalid_request")
        /\ session = "none"
        /\ calls = <<>>
        /\ answers = <<>>

C18_Witness ==
    /\ op = "upload_social_media"
    /\ social_media_link.scheme = "https"
    /\ social_media_link.netloc = "exa_mple"
    /\ uret = Raise("invalid_request")
    /\ session = "none"

\* The fetch gave a payload without resultsSummary.
NoSummary(r) == r.t = "json" /\ The(r.body).summaryKind = "absent"

\* C19: format_result on a fetched payload without resultsSummary, one of
\* the shape of a formatted result included, does not fail and gives status
\* UNKNOWN, no score and no models, whatever models the payload carries;
\* get_detection_result returns that result when such a payload is the
\* answer to its last allowed fetch.
C19_NoSummaryGivesDefault ==
    (op = "get_result") =>
        \A i \in 1 .. Len(log) :
            NoSummary(log[i]) =>
                /\ format_result(The(log[i].body)).ok
                /\ Formatted(log[i]).status = "UNKNOWN"
                /\ Formatted(log[i]).score = {}
                /\ Formatted(log[i]).models = <<>>
                /\ (max_attempts >= 1 /\ i = max_attempts) =>
                      /\ sret.kind = "return"
                      /\ The(sret.result).status = "UNKNOWN"
                      /\ The(sret.result).score = {}
                      /\ The(sret.result).models = <<>>

C19_Witness ==
    /\ op = "get_result"
    /\ max_attempts = 1
    /\ Len(log) = 1
    /\ log[1] = Json(AlreadyFormatted)
    /\ sret = Return([request_id |-> "UNKNOWN", status |-> "UNKNOWN",
                      score |-> {}, models |-> <<>>])

\* The result has status FAKE nowhere.
NoFake(result) ==
    /\ result.status # "FAKE"
    /\ \A j \in 1 .. Len(result.models) : result.models[j].status # "FAKE"

\* The raw models that are not NOT_APPLICABLE, in order.
Active(ms) == SelectSeq(ms, LAMBDA m : m.status # {"NOT_APPLICABLE"})

\* The status the formatter is to give for a raw status.
Expected(raw) ==
    CASE raw = {"FAKE"} -> "MANIPULATED"
      [] raw = {} -> "UNKNOWN"
      [] OTHER -> The(raw)

\* C20: no result returned by get_detection_result, listed by
\* get_detection_results or emitted by poll_for_results has status FAKE, at
\* the top level or in a model entry; and format_result on a fetched payload
\* with a resultsSummary gives MANIPULATED for the raw status FAKE and the
\* raw status itself for any other, at the top level and in each model
\* entry that is not NOT_APPLICABLE.
C20_FakeIsRewritten ==
    /\ (op \in {"get_result", "poll_for_results"} /\ sret.kind = "return") =>
           NoFake(The(sret.result))
    /\ (op = "get_results" /\ sret.kind = "return") =>
           \A j \in 1 .. Len(The(sret.result).items) :
               NoFake(The(sret.result).items[j])
    /\ \A i \in 1 .. Len(emitted) :
           emitted[i].event = "result" => NoFake(The(emitted[i].result))
    /\ (op = "get_result") =>
           \A i \in 1 .. Len(log) :
               (Formats(log[i]) /\ ~NoSummary(log[i])) =>
                   LET raw == The(log[i].body)
                       kept == Active(raw.models)
                   IN /\ Formatted(log[i]).status = Expected(raw.status)
                      /\ Len(Formatted(log[i]).models) = Len(kept)
                      /\ \A j \in 1 .. Len(kept) :
                            Formatted(log[i]).models[j].status =
                                Expected(kept[j].status)

C20_Witness ==
    /\ op = "get_result"
    /\ Len(log) = 1
    /\ Formats(log[1])
    /\ The(log[1].body).status = {"FAKE"}
    /\ sret.kind = "return"
    /\ The(sret.result).status = "MANIPULATED"
    /\ Len(The(sret.result).models) = 1
    /\ The(sret.result).models[1].status = "MANIPULATED"

\* The positions of the raw models that are not NOT_APPLICABLE.
ActiveAt(ms) == {i \in 1 .. Len(ms) : ms[i].status # {"NOT_APPLICABLE"}}

\* C21: for every fetched payload with a resultsSummary, the models list of
\* format_result holds one entry for each raw model whose status is not
\* NOT_APPLICABLE and no other: as many entries as there are such raw
\* models, the j-th entry made from the j-th of them (its name, or Unknown),
\* and none with status NOT_APPLICABLE; get_detection_result returns that
\* list.
C21_ActiveModelsInOrder ==
    (op = "get_result") =>
        \A i \in 1 .. Len(log) :
            (Formats(log[i]) /\ ~NoSummary(log[i])) =>
                LET raw == The(log[i].body).models
                    out == Formatted(log[i]).models
                IN /\ Len(out) = Cardinality(ActiveAt(raw))
                   /\ \A j \in 1 .. Len(out) :
                         /\ out[j].status # "NOT_APPLICABLE"
                         /\ \E k \in ActiveAt(raw) :
                               /\ Cardinality({n \in ActiveAt(raw) : n <= k}) = j
                               /\ out[j].name = OrElse(raw[k].name, "Unknown")
                   /\ (i = Len(log) /\ sret.kind = "return") =>
                         The(sret.result).models = out

C21_Witness ==
    /\ op = "get_result"
    /\ Len(log) = 1
    /\ Formats(log[1])
    /\ Len(The(log[1].body).models) = 5
    /\ sret.kind = "return"
    /\ Len(The(sret.result).models) = 3
    /\ The(sret.result).models[1].name = "rd-pine-img"
    /\ The(sret.result).models[2].name = "Unknown"
    /\ The(sret.result).models[3].name = "rd-context-img"

\* C22: for every fetched payload with a resultsSummary, the score of
\* format_result is finalScore / 100 when finalScore is a number (87 gives
\* 87/100) and is absent, format_result not failing, when finalScore is
\* missing or is no number.
C22_ScoreIsHundredth ==
    (op = "get_result") =>
        \A i \in 1 .. Len(log) :
            (log[i].t = "json" /\ The(log[i].body).summaryKind = "dict") =>
                LET raw == The(log[i].body).finalScore IN
                /\ format_result(The(log[i].body)).ok
                /\ raw.kind = "num" => Formatted(log[i]).score = {<<raw.num, 100>>}
                /\ raw.kind \in {"absent", "str"} => Formatted(log[i]).score = {}

C22_Witness ==
    /\ op = "get_result"
    /\ Len(log) = 1
    /\ log[1].t = "json"
    /\ The(log[1].body).finalScore = Num(87)
    /\ sret.kind = "return"
    /\ The(sret.result).score = {<<87, 100>>}

\* A get_result call has returned the result of a payload whose finalScore
\* is a string.
C22_StringWitness ==
    /\ op = "get_result"
    /\ max_attempts = 1
    /\ Len(log) = 1
    /\ log[1].t = "json"
    /\ The(log[1].body).finalScore = Str
    /\ sret.kind = "return"
    /\ The(sret.result).score = {}

\* One of the four counters of the page is missing.
CounterMissing(b) ==
    \/ b.totalItems = {}
    \/ b.totalPages = {}
    \/ b.currentPage = {}
    \/ b.currentPageItemsCount = {}

\* C23: for every fetched page, format_result_list raises server_error and
\* gives no list when one of totalItems, totalPages, currentPage and
\* currentPageItemsCount is missing; with the four and the media list
\* present and every entry formatting, it returns the four counters as they
\* are and the format_result output of each entry, in order.  With a budget
\* of one attempt get_detection_results ends the same way.
C23_CountersAreRequired ==
    (op = "get_results") =>
        \A i \in 1 .. Len(log) :
            log[i].t = "json" =>
                LET b == The(log[i].body)
                    f == format_result_list(b)
                IN /\ CounterMissing(b) =>
                         /\ f.kind = "raise"
                         /\ f.code = "server_error"
                         /\ f.result = {}
                         /\ max_attempts = 1 => sret = Raise("server_error")
                   /\ ( /\ ~CounterMissing(b)
                        /\ b.mediaList # {}
                        /\ \A j \in 1 .. Len(The(b.mediaList)) :
                              format_result(The(b.mediaList)[j]).ok ) =>
                         /\ f.kind = "return"
                         /\ The(f.result).total_items = The(b.totalItems)
                         /\ The(f.result).total_pages = The(b.totalPages)
                         /\ The(f.result).current_page = The(b.currentPage)
                         /\ The(f.result).current_page_items_count =
                                The(b.currentPageItemsCount)
                         /\ Len(The(f.result).items) = Len(The(b.mediaList))
                         /\ \A j \in 1 .. Len(The(b.mediaList)) :
                                The(f.result).items[j] =
                                    format_result(The(b.mediaList)[j]).result
                         /\ sret = Return(The(f.result))

C23_Witness ==
    /\ op = "get_results"
    /\ max_attempts = 1
    /\ Len(log) = 1
    /\ log[1].t = "json"
    /\ The(log[1].body).totalPages = {}
    /\ The(log[1].body).totalItems = {2}
    /\ sret = Raise("server_error")

\* A get_results call has returned a page of two results.
C23_ReturnWitness ==
    /\ op = "get_results"
    /\ Len(log) = 1
    /\ sret.kind = "return"
    /\ The(sret.result).total_items = 2
    /\ Len(The(sret.result).items) = 2
    /\ The(sret.result).items[2].request_id = "req-2"

\* Non-domain failures inside upload_file: the POST ended with an exception
\* that is no RealityDefenderError and no aiohttp.ClientError; reading the
\* signed URL failed on a `response` member that is no object; the PUT ended
\* with an exception.
PostCrashed == Len(answers) >= 1 /\ answers[1] = OtherError
ResponseCrashed ==
    /\ Len(answers) >= 1
    /\ get_signed_url(answers[1]).t = "json"
    /\ The(get_signed_url(answers[1]).body).responseKind = "scalar"
PutCrashed == Len(answers) = 2 /\ answers[2] \in {ClientError, OtherError}

\* C29 as stated: a non-domain failure inside upload_file or
\* upload_social_media_link reaches the caller as a domain error of kind
\* unknown_error.
C29_UploadNonDomainIsUnknownError ==
    /\ (op = "upload" /\ (PostCrashed \/ ResponseCrashed \/ PutCrashed)) =>
           uret = Raise("unknown_error")
    /\ (op = "upload_social_media" /\ PostCrashed) =>
           uret = Raise("unknown_error")

\* C29, amended: a non-domain failure inside upload_file or
\* upload_social_media_link ends the call with a domain error: of kind
\* unknown_error when it is a failure of the signed-URL POST of upload_file,
\* and of kind upload_failed when it occurs while the signed-URL answer is
\* read, in the PUT, or in the POST of upload_social_media_link.
C29_UploadNonDomainIsWrapped ==
    /\ (op = "upload") =>
           /\ PostCrashed => upc = "done" /\ uret = Raise("unknown_error")
           /\ ResponseCrashed => upc = "done" /\ uret = Raise("upload_failed")
           /\ PutCrashed => upc = "done" /\ uret = Raise("upload_failed")
    /\ (op = "upload_social_media" /\ PostCrashed) =>
           upc = "done" /\ uret = Raise("upload_failed")

C29_Witness ==
    /\ op = "upload"
    /\ ResponseCrashed
    /\ calls = <<"POST">>
    /\ uret = Raise("upload_failed")

\* The PUT of an upload_file call ended with an exception.
C29_PutWitness ==
    /\ op = "upload"
    /\ answers[2] = OtherError
    /\ uret = Raise("upload_failed")

----------------------------------------------------------------------------
(* The synchronous variants and cleanup.                                   *)

\* C24: when _run_async has returned to its caller, the caller has the
\* coroutine's value if it returned, the coroutine's RealityDefenderError
\* with its code unchanged if it raised one, and a RealityDefenderError of
\* code unknown_error if any other exception left it.
C24_BridgeMapsOutcome ==
    bridge.state = "returned" =>
        /\ Outcome.kind \in {"return", "raise", "exception"}
        /\ Outcome.kind = "return" => cret = Outcome
        /\ Outcome.kind = "raise" => cret = Outcome
        /\ Outcome.kind = "exception" => cret = Raise("unknown_error")

C24_Witness ==
    /\ bridge.state = "returned"
    /\ bridge.coro[1] = "get_result"
    /\ sret = Escape
    /\ cret = Raise("unknown_error")

C24_RaiseWitness ==
    /\ bridge.state = "returned"
    /\ bridge.coro[1] = "upload"
    /\ uret = Raise("file_too_large")
    /\ cret = Raise("file_too_large")

C24_ReturnWitness ==
    /\ bridge.state = "returned"
    /\ bridge.coro[1] = "get_results"
    /\ sret.kind = "return"
    /\ cret = sret

\* C25 as stated: a synchronous variant called while the loop is running
\* has its coroutine scheduled on the loop and returns to its caller in the
\* end, whichever thread called it.
C25_RunningLoopCallerIsReleased ==
    (bridge.state = "called" /\ bridge.mode = "run_coroutine_threadsafe")
        ~> (bridge.state = "returned")

\* C27: once cleanup has been called the session is closed or was never
\* created, and session.close() has been awaited at most once however often
\* cleanup was called.
C27_ShutdownIsIdempotent ==
    /\ closes <= 1
    /\ cleanups >= 1 =>
           /\ session \in {"none", "closed"}
           /\ closes = IF session = "closed" THEN 1 ELSE 0

C27_Witness ==
    /\ op = "cleanup"
    /\ upc = "done"
    /\ cleanups = 2
    /\ session = "closed"
    /\ closes = 1

C27_NoSessionWitness ==
    /\ cleanups = 2
    /\ session = "none"
    /\ closes = 0

BothEnded == op = "gather" /\ \A i \in 1 .. 2 : tasks[i].ppc = "done"

\* C30 as stated: of two poll_for_results calls running at once, each
\* advances its own elapsed by its own interval for each of its own waiting
\* rounds only, each emits at most one terminal event and has ended once
\* it is emitted, and when both have ended each has emitted exactly one.
C30_ConcurrentPollersAreIndependent ==
    op = "gather" =>
        /\ \A i \in 1 .. 2 :
               /\ tasks[i].elapsed = tasks[i].waits * The(tasks[i].interval)
               /\ Len(tasks[i].emitted) <= 1
               /\ tasks[i].emitted # <<>> => tasks[i].ppc = "done"
        /\ BothEnded => \A i \in 1 .. 2 : Len(tasks[i].emitted) = 1

\* The part of C30 about the counters: each call's elapsed is its own
\* interval times its own waiting rounds, and a call times out only after a
\* waiting round of its own.
C30_ElapsedIsOwn ==
    op = "gather" =>
        \A i \in 1 .. 2 :
            /\ tasks[i].elapsed = tasks[i].waits * The(tasks[i].interval)
            /\ (tasks[i].emitted # <<>> /\ tasks[i].emitted[1] = TimeoutEvent) =>
                   /\ tasks[i].waits = 1
                   /\ tasks[i].elapsed >= The(tasks[i].timeout)

C30_TimeoutBesideResultWitness ==
    /\ BothEnded
    /\ tasks[1].emitted = <<TimeoutEvent>>
    /\ Len(tasks[2].emitted) = 1
    /\ tasks[2].emitted[1].event = "result"
    /\ tasks[2].waits = 0

----------------------------------------------------------------------------
(* Budgets of zero and less, and the empty request id.                     *)

Max0(n) == IF n > 0 THEN n ELSE 0

\* C35 as stated: get_detection_result makes no more fetches than
\* max_attempts (none for a budget of zero or less), and when it has ended
\* fewer sleeps than fetches were made, so none follows the last fetch.
C35_FetchesWithinBudget ==
    op = "get_result" =>
        /\ fetches <= Max0(max_attempts)
        /\ spc = "done" => (sleeps = 0 \/ sleeps < fetches)

\* The part of C35 about budgets of at least 1.
C35_PositiveBudgetIsKept ==
    (op = "get_result" /\ max_attempts >= 1) =>
        /\ fetches <= max_attempts
        /\ spc = "done" => (sleeps = 0 \/ sleeps < fetches)

\* The list fetch succeeded and its payload formats.
ListGood(r) ==
    /\ get_media_results(r).t # "error"
    /\ format_result_list(The(r.body)).kind = "return"

\* C36: get_detection_results makes no more than max(max_attempts, 0)
\* fetches; a fetch that succeeds and formats is the first such one and the
\* last fetch, and the call has returned its formatted list; whatever the
\* call returns is the formatted list of such a fetch; and with
\* max_attempts <= 0 the call has raised timeout without a fetch.
C36_ListBudgetAndFirstGoodFetch ==
    op = "get_results" =>
        /\ fetches <= Max0(max_attempts)
        /\ Len(log) <= Max0(max_attempts)
        /\ \A i \in 1 .. Len(log) :
               ListGood(log[i]) =>
                   /\ i = Len(log)
                   /\ spc = "done"
                   /\ sret = format_result_list(The(log[i].body))
                   /\ fetches = i
        /\ sret.kind = "return" => (log # <<>> /\ ListGood(log[Len(log)]))
        /\ max_attempts <= 0 =>
               /\ spc = "done"
               /\ sret = Raise("timeout")
               /\ fetches = 0
               /\ log = <<>>

C36_Witness ==
    /\ op = "get_results"
    /\ max_attempts = 3
    /\ Len(log) = 2
    /\ ~ListGood(log[1])
    /\ ListGood(log[2])
    /\ sret.kind = "return"
    /\ fetches = 2

C36_NoBudgetWitness ==
    /\ op = "get_results"
    /\ max_attempts = 0
    /\ sret = Raise("timeout")
    /\ fetches = 0

\* C38: get_detection_result called with an empty request id has raised
\* not_found without a fetch; poll_for_results called with one makes no
\* fetch, emits nothing but one timeout error, with which it ends and
\* which it emits only when elapsed has reached the timeout, and when its
\* interval is positive it ends.
C38_EmptyRequestId ==
    /\ []( (op = "get_result" /\ request_id = "") =>
               /\ spc = "done"
               /\ sret = Raise("not_found")
               /\ fetches = 0
               /\ log = <<>> )
    /\ []( (op = "poll_for_results" /\ request_id = "") =>
               /\ fetches = 0
               /\ log = <<>>
               /\ emitted \in {<<>>, <<TimeoutEvent>>}
               /\ emitted # <<>> => (ppc = "done" /\ elapsed >= timeout)
               /\ ppc = "done" => emitted = <<TimeoutEvent>>
               /\ (ppc = "sleep" /\ elapsed < timeout) => emitted = <<>> )
    /\ (op = "poll_for_results" /\ request_id = "" /\ polling_interval > 0)
           ~> (ppc = "done")

C38_Witness ==
    /\ op = "poll_for_results"
    /\ request_id = ""
    /\ ppc = "done"
    /\ waits >= 1
    /\ polling_interval = 30000
    /\ emitted = <<TimeoutEvent>>
    /\ fetches = 0

C38_PollSingleWitness ==
    /\ op = "get_result"
    /\ request_id = ""
    /\ max_attempts = 3
    /\ sret = Raise("not_found")
    /\ fetches = 0

----------------------------------------------------------------------------
(* The transport session.                                                  *)

\* The session is made at the first network operation, every later one
\* uses it, and one ClientSession at most is open.
OneSession ==
    /\ session = "none" <=> sessions = 0
    /\ sessions - closes <= 1
    /\ closes = 0 => sessions <= 1
    /\ (fetches = 0 /\ calls = <<>> /\ op \notin {"gather", "threads"}) =>
           session = "none"

\* C31 as stated: no ClientSession exists before the first network
\* operation, which makes one; it is used by every later operation until
\* cleanup, so that one ClientSession at most is open in every state and no
\* second one is made before cleanup.
C31_OneSessionLazily == OneSession

\* The part of C31 about operations that do not run in threads of their
\* own.
C31_OneSessionOnOneLoop == op # "threads" => OneSession

C31_ReuseWitness ==
    /\ op = "get_result"
    /\ fetches = 3
    /\ session = "open"
    /\ sessions = 1

----------------------------------------------------------------------------
(* The event emitter.                                                      *)

\* The callbacks the emit call number n has called, in order.
InvokedBy(n) ==
    LET mine == SelectSeq(emitter.log, LAMBDA x : x.n = n)
    IN [i \in 1 .. Len(mine) |-> mine[i].el]

IsPrefix(a, b) == Len(a) <= Len(b) /\ \A i \in 1 .. Len(a) : a[i] = b[i]

EndedEmits == {emitter.done[i] : i \in 1 .. Len(emitter.done)}

\* C32 as stated: a handler registered with once is called by one emit at
\* most and is no longer registered once it has been called; a handler
\* registered with on and still registered when an emit of its event
\* begins is called by that emit.
C32_OnceAtMostOneEmit ==
    op = "emitter" =>
        /\ \A i, j \in 1 .. Len(emitter.log) :
               ( /\ emitter.log[i].el.once > 0
                 /\ emitter.log[i].el = emitter.log[j].el )
               => emitter.log[i].n = emitter.log[j].n
        /\ \A i \in 1 .. Len(emitter.log) :
               emitter.log[i].el.once > 0 =>
                   \A e \in EventNames :
                       \A k \in 1 .. Len(Registered(emitter, e)) :
                           Registered(emitter, e)[k] # emitter.log[i].el
        /\ \A d \in EndedEmits :
               ~d.raised =>
                   \A k \in 1 .. Len(d.snap) :
                       d.snap[k].once = 0 =>
                           \E m \in 1 .. Len(InvokedBy(d.n)) :
                               InvokedBy(d.n)[m] = d.snap[k]

\* The parts of C32 that hold: a one_time_handler is no longer registered
\* once it has been called, the user's later emit calls do not call it, and
\* every emit that no exception ends calls the handlers registered with on.
C32_OnceIsDeregisteredFirst ==
    op = "emitter" =>
        /\ \A i \in 1 .. Len(emitter.log) :
               emitter.log[i].el.once > 0 =>
                   \A e \in EventNames :
                       \A k \in 1 .. Len(Registered(emitter, e)) :
                           Registered(emitter, e)[k] # emitter.log[i].el
        /\ \A d \in EndedEmits :
               ~d.raised =>
                   \A k \in 1 .. Len(d.snap) :
                       d.snap[k].once = 0 =>
                           \E m \in 1 .. Len(InvokedBy(d.n)) :
                               InvokedBy(d.n)[m] = d.snap[k]

\* C33 as stated: an emit that has ended has called exactly the handlers
\* registered for its event when it began, once for each registration and
\* in the order of registration, and has left the other event's list as it
\* was.
C33_EmitCallsEveryHandler ==
    op = "emitter" =>
        \A d \in EndedEmits :
            /\ InvokedBy(d.n) = d.snap
            /\ d.before = d.after

\* C33, amended: the same for an emit that no exception of a handler has
\* ended; an emit that a handler's exception has ended has called the
\* handlers registered when it began, in order, up to one that raised, or
\* up to one inside which an emit was ended by an exception.
C33_EmitCallsEveryHandlerUnlessOneRaises ==
    op = "emitter" =>
        \A d \in EndedEmits :
            /\ ~d.raised => InvokedBy(d.n) = d.snap
            /\ d.raised =>
                   /\ InvokedBy(d.n) # <<>>
                   /\ IsPrefix(InvokedBy(d.n), d.snap)
                   /\ InvokedBy(d.n)[Len(InvokedBy(d.n))].cb \in {"raises", "emits"}
            /\ d.before = d.after

C33_Witness ==
    /\ op = "emitter"
    /\ Len(emitter.done) = 1
    /\ emitter.done[1].snap = <<OnEl("removes_plain"), OnEl("plain")>>
    /\ InvokedBy(1) = emitter.done[1].snap
    /\ ~emitter.done[1].raised
    /\ Registered(emitter, "result") = <<OnEl("removes_plain")>>

C33_SelfRemovalWitness ==
    /\ op = "emitter"
    /\ Len(emitter.done) = 2
    /\ emitter.done[1].snap = <<OnEl("removes_self"), OnEl("plain")>>
    /\ InvokedBy(1) = emitter.done[1].snap
    /\ InvokedBy(2) = <<OnEl("plain")>>

C33_RaiseWitness ==
    /\ op = "emitter"
    /\ Len(emitter.done) = 1
    /\ emitter.done[1].raised
    /\ emitter.done[1].snap = <<OnEl("raises"), OnEl("plain")>>
    /\ InvokedBy(1) = <<OnEl("raises")>>

\* C34 as stated: an emit that has returned has returned TRUE exactly when
\* handlers were registered for its event when it began, which is exactly
\* when it called at least one.
C34_EmitReturnsWhetherItCalled ==
    op = "emitter" =>
        \A d \in EndedEmits :
            ~d.raised =>
                /\ d.ret <=> (d.snap # <<>>)
                /\ d.ret <=> (InvokedBy(d.n) # <<>>)

\* What emit does return: whether handlers are registered for its event
\* when it ends.
C34_EmitReturnsWhetherAnyIsLeft ==
    op = "emitter" =>
        /\ \A d \in EndedEmits : d.ret => ~d.raised /\ d.snap # <<>>
        /\ ( /\ emitter.stack = <<>>
             /\ emitter.done # <<>>
             /\ ~emitter.done[Len(emitter.done)].raised )
           => ( emitter.done[Len(emitter.done)].ret <=>
                  Registered(emitter,
                             emitter.done[Len(emitter.done)].event) # <<>> )

\* C37 as stated: a callback passed to a poll_for_results_sync call that
\* had returned when a later call was made is not called by an event of
\* that later call.
C37_CallbackOnlyForItsOwnCall ==
    op = "threads" =>
        \A p \in sched.ended_before : p \notin sched.heard

----------------------------------------------------------------------------
(* The desktop app.                                                        *)

C39_LastStatementsOverlap ==
    /\ op = "app"
    /\ Len(app.threads) = 2
    /\ app.threads[1].pos = "reset"
    /\ app.threads[2].pos = "try"

\* The upload attempts that failed, among those answered.
Failures(u) == {i \in 1 .. Len(u.answers) : u.answers[i].kind # "return"}

\* C40: safe_upload makes no more than `retries` upload attempts; it
\* returns the response of the first attempt that succeeds, which is the
\* last attempt made; between attempts it has slept backoff * k after the
\* k-th failed attempt and never after the last attempt allowed; it raises
\* nothing; and after `retries` failures (none for retries <= 0) it has
\* returned the dict with the error entry.
C40_SafeUploadRetries ==
    op = "safe_upload" =>
        LET u == app.up IN
        /\ u.tries <= Max0(u.retries)
        /\ Len(u.answers) <= u.tries
        /\ u.ret.kind \in {"none", "return"}
        /\ \A i \in 1 .. Len(u.answers) :
               u.answers[i].kind = "return" =>
                   /\ i = Len(u.answers)
                   /\ u.pc = "done"
                   /\ u.ret = u.answers[i]
        /\ Len(u.waited) <= Max0(u.retries - 1)
        /\ \A k \in 1 .. Len(u.waited) : u.waited[k] = u.backoff * k
        /\ Len(u.waited) = IF Cardinality(Failures(u)) < Max0(u.retries)
                           THEN Cardinality(Failures(u))
                           ELSE Max0(u.retries - 1)
        /\ (u.pc = "done" /\ Failures(u) = 1 .. Len(u.answers)) =>
               /\ u.ret = UploadError
               /\ Len(u.answers) = Max0(u.retries)
        /\ u.ret = UploadError => Failures(u) = 1 .. Max0(u.retries)

C40_Witness ==
    /\ op = "safe_upload"
    /\ app.up.retries = UPLOAD_RETRIES
    /\ app.up.backoff = UPLOAD_BACKOFF
    /\ app.up.pc = "done"
    /\ Len(app.up.answers) = 4
    /\ app.up.answers[4] = Escape
    /\ app.up.waited = <<2, 4, 6>>
    /\ app.up.ret = UploadError

C40_SuccessWitness ==
    /\ op = "safe_upload"
    /\ app.up.retries = UPLOAD_RETRIES
    /\ Len(app.up.answers) = 3
    /\ app.up.waited = <<2, 4>>
    /\ app.up.ret = app.up.answers[3]
    /\ app.up.ret.kind = "return"

C40_NoRetriesWitness ==
    /\ op = "safe_upload"
    /\ app.up.retries = 0
    /\ app.up.tries = 0
    /\ app.up.ret = UploadError

====
